---- MODULE Spec2Model ----
(***************************************************************************)
(* Glider flight simulation core: the thermal field (ThermalSystem) and    *)
(* the flight step (FlightPhysics).                                        *)
(*                                                                         *)
(* Numbers.  The program computes in IEEE doubles; the model computes in   *)
(* fixed point on 32-bit integers:                                         *)
(*   time                    milliseconds                                  *)
(*   lengths, positions      millimetres                                   *)
(*   velocities              micrometres per second                        *)
(*   dimensionless numbers, angles (rad), angular rates (rad/s),           *)
(*   quaternion components   units of 1e-8  (One)                          *)
(* Every product is taken exactly (MulDiv) and then truncated toward zero  *)
(* once, so a result differs from the real-number result by a few units of *)
(* the last place, as a double differs by a few ulps.                      *)
(***************************************************************************)
EXTENDS Integers, Sequences, FiniteSets, TLC

----------------------------------------------------------------------------
(* Fixed-point arithmetic                                                  *)
(* A value computed once and used several times is handed on as an         *)
(* operator argument (the local variable of the source it stands for).     *)

One == 10^8

Abs(x) == IF x < 0 THEN -x ELSE x
Sign(x) == IF x > 0 THEN 1 ELSE IF x < 0 THEN -1 ELSE 0
Min(a, b) == IF a < b THEN a ELSE b
Max(a, b) == IF a > b THEN a ELSE b

\* The largest integer of a 32-bit word
MaxInt == (2^30 - 1) * 2 + 1

\* The radix of the long multiplication below: the largest of these powers of
\* two for which (2 * radix - 1) * c stays within 32 bits.
Radix(c) ==
  IF c <= 1049088 THEN 1024
  ELSE IF c <= 16909320 THEN 64
  ELSE IF c <= 69273666 THEN 16
  ELSE IF c <= 143165576 THEN 8
  ELSE IF c <= 306783378 THEN 4
  ELSE 2

\* [q, r] with a*b = q*c + r and 0 <= r < c, for 0 <= a < c, b >= 0, c > 0:
\* long multiplication digit by digit of b, never leaving 32 bits.
RECURSIVE MulDivQR(_, _, _, _)
RECURSIVE MulDivDigit(_, _, _, _, _)
MulDivQR(a, b, c, radix) ==
  IF b = 0 THEN [q |-> 0, r |-> 0]
  ELSE MulDivDigit(a, b, c, radix, MulDivQR(a, b \div radix, c, radix))

\* One digit of b on top of h, the quotient and remainder of the digits above
MulDivDigit(a, b, c, radix, h) ==
  [q |-> radix * h.q + (radix * h.r + (b % radix) * a) \div c,
   r |-> (radix * h.r + (b % radix) * a) % c]

\* aa*bb/cc for aa, bb >= 0, cc > 0, exact in the product
MulDivAbs(aa, bb, cc) ==
  IF aa = 0 \/ bb = 0 THEN 0
  ELSE IF aa <= MaxInt \div bb THEN (aa * bb) \div cc
  ELSE (aa \div cc) * bb + MulDivQR(aa % cc, bb, cc, Radix(cc)).q

\* a*b/c truncated toward zero, exact in the product.
MulDiv(a, b, c) == Sign(a) * Sign(b) * Sign(c) * MulDivAbs(Abs(a), Abs(b), Abs(c))

\* (ah * 1e4 + al) * (bh * 1e4 + bl) / 1e8, by halves of four decimal digits
MulParts(ah, al, bh, bl) ==
  ah * bh + ((ah * bl) \div 10^4) + ((al * bh) \div 10^4)
    + ((((ah * bl) % 10^4) + ((al * bh) % 10^4)) * 10^4 + al * bl) \div One

\* aa*bb in units of 1e-8 for aa, bb >= 0
MulAbs(aa, bb) == MulParts(aa \div 10^4, aa % 10^4, bb \div 10^4, bb % 10^4)

\* a*b in units of 1e-8, truncated toward zero, exact and within 32 bits
\* (equals MulDiv(a, b, One))
FMul(a, b) == Sign(a) * Sign(b) * MulAbs(Abs(a), Abs(b))

FDiv(a, b) == MulDiv(a, One, b)

\* Integer Newton iteration for sqrt(a * One), from above: x the iterate,
\* y the next one.
RECURSIVE SqrtIter(_, _)
RECURSIVE SqrtNext(_, _, _)
SqrtIter(a, x) == SqrtNext(a, x, (x + MulDivAbs(a, One, x)) \div 2)
SqrtNext(a, x, y) == IF y >= x THEN x ELSE SqrtIter(a, y)

\* Math.sqrt on a number in units of 1e-8.
FSqrt(a) == IF a <= 0 THEN 0 ELSE SqrtIter(a, Max(a, One))

MathPI == 314159265

\* n/d degrees in radians: (n/d) * (Math.PI / 180)
Deg(n, d) == MulDiv(n, MathPI, 180 * d)

\* m in [0, 2 PI) moved to (-PI, PI]
WrapHalf(m) == IF m > MathPI THEN m - 2 * MathPI ELSE m

\* x reduced to (-PI, PI]
WrapPi(x) == WrapHalf(x % (2 * MathPI))

\* Taylor series of sin about 0: term k+1 = -term k * x^2 / ((2k)(2k+1))
RECURSIVE SinSeries(_, _, _, _)
RECURSIVE SinTerm(_, _, _, _)
SinSeries(x2, term, k, acc) ==
  IF term = 0 \/ k > 10 THEN acc
  ELSE SinTerm(x2, -(FMul(term, x2) \div ((2 * k) * (2 * k + 1))), k, acc)
SinTerm(x2, nxt, k, acc) == SinSeries(x2, nxt, k + 1, acc + nxt)

\* Taylor series of cos about 0: term k+1 = -term k * x^2 / ((2k-1)(2k))
RECURSIVE CosSeries(_, _, _, _)
RECURSIVE CosTerm(_, _, _, _)
CosSeries(x2, term, k, acc) ==
  IF term = 0 \/ k > 10 THEN acc
  ELSE CosTerm(x2, -(FMul(term, x2) \div ((2 * k - 1) * (2 * k))), k, acc)
CosTerm(x2, nxt, k, acc) == CosSeries(x2, nxt, k + 1, acc + nxt)

\* sin and cos of an argument in [-PI/4, PI/4]
SinSmall(r) == SinSeries(FMul(r, r), r, 1, r)
CosSmall(r) == CosSeries(FMul(r, r), One, 1, One)

\* cos of an argument in [0, PI]
CosAbs(a) ==
  IF a <= MathPI \div 4 THEN CosSmall(a)
  ELSE IF a <= 3 * (MathPI \div 4) THEN SinSmall(MathPI \div 2 - a)
  ELSE -CosSmall(MathPI - a)

\* sin of an argument in [0, PI]
SinAbs(a) ==
  IF a <= MathPI \div 4 THEN SinSmall(a)
  ELSE IF a <= 3 * (MathPI \div 4) THEN CosSmall(MathPI \div 2 - a)
  ELSE SinSmall(MathPI - a)

\* sin of an argument in (-PI, PI]
SinWrapped(w) == Sign(w) * SinAbs(Abs(w))

\* Math.cos
FCos(x) == CosAbs(Abs(WrapPi(x)))

\* Math.sin
FSin(x) == SinWrapped(WrapPi(x))

\* Series of atan about 0, for |t| <= tan(PI/12)
RECURSIVE AtanSeries(_, _, _, _)
RECURSIVE AtanTerm(_, _, _, _)
AtanSeries(t2, pow, k, acc) ==
  IF pow = 0 \/ k > 12 THEN acc
  ELSE AtanTerm(t2, -FMul(pow, t2), k, acc)
AtanTerm(t2, nxt, k, acc) == AtanSeries(t2, nxt, k + 1, acc + nxt \div (2 * k + 1))

Sqrt3 == FSqrt(3 * One)
TanPi12 == 2 * One - Sqrt3

\* atan(u) for |u| <= tan(PI/12)
AtanSmall(u) == AtanSeries(FMul(u, u), u, 1, u)

\* atan(t) for 0 <= t <= 1, argument reduced by atan(t) = PI/6 + atan((sqrt3 t - 1)/(sqrt3 + t))
Atan01(t) ==
  IF t > TanPi12
  THEN MathPI \div 6 + AtanSmall(FDiv(FMul(Sqrt3, t) - One, Sqrt3 + t))
  ELSE AtanSmall(t)

\* atan2(ay, ax) for ax, ay >= 0, in [0, PI/2]
AtanQuarter(ay, ax) ==
  IF ax = 0 /\ ay = 0 THEN 0
  ELSE IF ax >= ay THEN Atan01(MulDivAbs(ay, One, ax))
  ELSE MathPI \div 2 - Atan01(MulDivAbs(ax, One, ay))

\* b0 = atan2(|y|, |x|) moved to the quadrant of (x, y)
AtanQuadrant(y, x, b0) ==
  IF y < 0 THEN (IF x < 0 THEN b0 - MathPI ELSE -b0)
  ELSE (IF x < 0 THEN MathPI - b0 ELSE b0)

\* Math.atan2(y, x), result in (-PI, PI]
FAtan2(y, x) == AtanQuadrant(y, x, AtanQuarter(Abs(y), Abs(x)))

----------------------------------------------------------------------------
(* Units                                                                   *)

Milli == 10^3        \* millimetres per metre, milliseconds per second
Micro == 10^6        \* micrometres per metre

Square(r) == FMul(r, r)

\* sqrt(x^2 + y^2 + z^2) with m the largest of |x|, |y|, |z|
HypotScaled(x, y, z, m) ==
  IF m = 0 THEN 0
  ELSE MulAbs(m, FSqrt(Square(FDiv(x, m)) + Square(FDiv(y, m)) + Square(FDiv(z, m))))

\* THREE.Vector2 / THREE.Vector3 length(): sqrt of the sum of squares, scaled
\* by the largest component so that no square leaves 32 bits.
Hypot(x, y, z) == HypotScaled(x, y, z, Max(Abs(x), Max(Abs(y), Abs(z))))

\* (h * 1e4 + l)^2 as [hi, lo], hi * 1e8 + lo
SquareParts(h, l) ==
  [hi |-> h * h + (2 * h * l) \div 10^4 + (((2 * h * l) % 10^4) * 10^4 + l * l) \div One,
   lo |-> (((2 * h * l) % 10^4) * 10^4 + l * l) % One]

\* x * x as [hi, lo], hi * 1e8 + lo, exact for |x| < 4.6e8
SquareBig(x) == SquareParts(Abs(x) \div 10^4, Abs(x) % 10^4)

\* sx + sy of two [hi, lo] numbers
AddBig(sx, sy) ==
  [hi |-> sx.hi + sy.hi + (sx.lo + sy.lo) \div One, lo |-> (sx.lo + sy.lo) % One]

\* THREE.Vector2.distanceToSquared, exact
distanceToSquared(a, b) == AddBig(SquareBig(a.x - b.x), SquareBig(a.y - b.y))

\* d < l for two [hi, lo] numbers
LessBig(d, l) == d.hi < l.hi \/ (d.hi = l.hi /\ d.lo < l.lo)

\* a.distanceTo(b) < limit, decided on the squares
distanceToLess(a, b, limit) == LessBig(distanceToSquared(a, b), SquareBig(limit))

----------------------------------------------------------------------------
(* physics/constants.ts                                                    *)

THERMAL_COUNT == 20
THERMAL_CORE_RADIUS == 350            \* m
THERMAL_OUTER_RADIUS == 600           \* m
THERMAL_W_MAX == 20                   \* m/s
THERMAL_W_MIN == 10                   \* m/s
WIND_SPEED == 6                       \* m/s
WIND_DIRECTION == MathPI \div 4       \* rad
THERMAL_DRIFT_FACTOR == 70000000      \* 0.7
WORLD_SIZE == 10000                   \* m

----------------------------------------------------------------------------
(* Math.random()                                                           *)
(* The generator's hidden state is a 16-bit linear congruential state; a   *)
(* draw advances it and returns one of RandRes values spread over [0, 1),  *)
(* both ends included: 0 and the largest number below 1.                   *)

RandRes == 8

NextRandom(rng) == (rng * 25173 + 13849) % 65536

RandomValue(rng) ==
  Min(MulDiv((rng * RandRes) \div 65536, One, RandRes - 1), One - 1)

----------------------------------------------------------------------------
(* physics/ThermalSystem                                                   *)

\* Faulty variant of the center draw: over the whole world, not 80% of it
CenterCoordWholeWorld(rng) == FMul(RandomValue(rng) - One \div 2, WORLD_SIZE * Milli)

\* One coordinate of a drawn center: (Math.random() - 0.5) * WORLD_SIZE * 0.8
CenterCoord(rng) == FMul(FMul(RandomValue(rng) - One \div 2, WORLD_SIZE * Milli), 80000000)

\* some existing thermal is closer to center than 2 * THERMAL_OUTER_RADIUS
Crowded(existingThermals, center) ==
  \E i \in 1..Len(existingThermals) :
    distanceToLess(existingThermals[i].center, center, THERMAL_OUTER_RADIUS * 2 * Milli)

\* The do-while of createThermal: draw a center, count the attempt, repeat
\* while attempts < 10 and some existing thermal is closer than 2 * outer radius.
RECURSIVE PickCenter(_, _, _)
RECURSIVE TryCenter(_, _, _, _)
PickCenter(existingThermals, rng, attempts) ==
  TryCenter(existingThermals,
            [x |-> CenterCoord(NextRandom(rng)), y |-> CenterCoord(NextRandom(NextRandom(rng)))],
            NextRandom(NextRandom(rng)), attempts + 1)

\* Faulty variant of the loop condition: one attempt too many
TryCenterLong(existingThermals, center, rng, attempts) ==
  IF attempts < 11 /\ Crowded(existingThermals, center)
  THEN PickCenter(existingThermals, rng, attempts)
  ELSE [center |-> center, rng |-> rng, attempts |-> attempts]

\* The loop condition on the center drawn at this attempt
TryCenter(existingThermals, center, rng, attempts) ==
  IF attempts < 10 /\ Crowded(existingThermals, center)
  THEN PickCenter(existingThermals, rng, attempts)
  ELSE [center |-> center, rng |-> rng, attempts |-> attempts]

\* The thermal made of a center and the four draws that follow it
ThermalFrom(center, r3, r4, r5, r6) ==
  [thermal |-> [id |-> r5,
                center |-> center,
                strength |-> THERMAL_W_MIN * Micro
                               + FMul(RandomValue(r3), (THERMAL_W_MAX - THERMAL_W_MIN) * Micro),
                radius |-> FMul(THERMAL_CORE_RADIUS * Milli, 80000000 + FMul(RandomValue(r4), 40000000)),
                age |-> 0,
                lifetime |-> 180 * Milli + FMul(RandomValue(r6), 300 * Milli)],
   rng |-> r6]

\* The draws of strength, radius, id and lifetime after the center c
DrawThermal(c) ==
  ThermalFrom(c.center, NextRandom(c.rng), NextRandom(NextRandom(c.rng)),
              NextRandom(NextRandom(NextRandom(c.rng))),
              NextRandom(NextRandom(NextRandom(NextRandom(c.rng)))))

\* createThermal: the new thermal and the generator state after its draws
createThermal(existingThermals, rng) == DrawThermal(PickCenter(existingThermals, rng, 0))

\* Faulty variant of the spawn loops: an if in place of the while, one
\* thermal at most per call
SpawnOne(thermals, rng) ==
  IF Len(thermals) < THERMAL_COUNT
  THEN Append(thermals, createThermal(thermals, rng).thermal)
  ELSE thermals

\* The spawn loops: push createThermal(thermals) while length < THERMAL_COUNT
RECURSIVE SpawnThermals(_, _)
RECURSIVE SpawnNext(_, _)
SpawnThermals(thermals, rng) ==
  IF Len(thermals) < THERMAL_COUNT
  THEN SpawnNext(thermals, createThermal(thermals, rng))
  ELSE thermals

\* thermals.push(c) and the next turn of the loop
SpawnNext(thermals, c) == SpawnThermals(Append(thermals, c.thermal), c.rng)

\* Faulty variant of createThermalSystem: the loop stops one thermal short
createThermalSystemShort(rng) ==
  [thermals |-> SubSeq(SpawnThermals(<< >>, rng), 1, THERMAL_COUNT - 1),
   wind |-> [x |-> FMul(FSin(WIND_DIRECTION), WIND_SPEED * Micro),
             y |-> 0,
             z |-> FMul(FCos(WIND_DIRECTION), WIND_SPEED * Micro)],
   time |-> 0]

createThermalSystem(rng) ==
  [thermals |-> SpawnThermals(<< >>, rng),
   wind |-> [x |-> FMul(FSin(WIND_DIRECTION), WIND_SPEED * Micro),
             y |-> 0,
             z |-> FMul(FCos(WIND_DIRECTION), WIND_SPEED * Micro)],
   time |-> 0]

\* wind component * THERMAL_DRIFT_FACTOR * deltaTime, in millimetres
Drift(windComponent, deltaTime) ==
  MulDiv(FMul(windComponent, THERMAL_DRIFT_FACTOR), deltaTime, Micro)

\* Faulty variant of the wrap: the upper bound only
WrapUpperOnly(c) ==
  IF c > (WORLD_SIZE * Milli) \div 2 THEN c - WORLD_SIZE * Milli ELSE c

\* if (c < -halfWorld) c += WORLD_SIZE
WrapLower(c) ==
  IF c < -((WORLD_SIZE * Milli) \div 2) THEN c + WORLD_SIZE * Milli ELSE c

\* Faulty variant of the wrap: the drifted coordinate as it is
NoWrap(c) == c

\* One coordinate of the wrap around the world bounds: the upper bound, then
\* the lower
WrapCoord(c) ==
  WrapLower(IF c > (WORLD_SIZE * Milli) \div 2 THEN c - WORLD_SIZE * Milli ELSE c)

\* Faulty variant of the loop body: the survivor's strength fades with its age
DriftThermalFading(thermal, driftX, driftZ, deltaTime) ==
  [thermal EXCEPT !.center = [x |-> WrapCoord(thermal.center.x + driftX),
                              y |-> WrapCoord(thermal.center.y + driftZ)],
                  !.age = thermal.age + deltaTime,
                  !.strength = MulDiv(thermal.strength, thermal.lifetime - thermal.age - deltaTime,
                                      thermal.lifetime)]

\* The loop body for a thermal that survives: drift, wrap, age
DriftThermal(thermal, driftX, driftZ, deltaTime) ==
  [thermal EXCEPT !.center = [x |-> WrapCoord(thermal.center.x + driftX),
                              y |-> WrapCoord(thermal.center.y + driftZ)],
                  !.age = thermal.age + deltaTime]

\* Faulty variant of the death check: a thermal dies on reaching its lifetime
DiesAtLifetime(thermal, deltaTime) == thermal.age + deltaTime >= thermal.lifetime

\* The death check of the loop
ThermalDies(thermal, deltaTime) == thermal.age + deltaTime > thermal.lifetime

updateThermalSystem(state, deltaTime, rng) ==
  LET newTime == state.time + deltaTime
      driftX == Drift(state.wind.x, deltaTime)
      driftZ == Drift(state.wind.z, deltaTime)
      survivors == SelectSeq(state.thermals, LAMBDA t : ~ThermalDies(t, deltaTime))
      updatedThermals == [i \in 1..Len(survivors) |->
                            DriftThermal(survivors[i], driftX, driftZ, deltaTime)]
  IN [thermals |-> SpawnThermals(updatedThermals, rng),
      wind |-> state.wind,
      time |-> newTime]

----------------------------------------------------------------------------
(* three.js: Vector3 and Quaternion                                        *)
(* A Vector3 is [x, y, z]; a Quaternion is [x, y, z, w] in units of 1e-8.  *)

Vec3(x, y, z) == [x |-> x, y |-> y, z |-> z]
Quat(x, y, z, w) == [x |-> x, y |-> y, z |-> z, w |-> w]

VAdd(a, b) == Vec3(a.x + b.x, a.y + b.y, a.z + b.z)
VSub(a, b) == Vec3(a.x - b.x, a.y - b.y, a.z - b.z)
VLength(v) == Hypot(v.x, v.y, v.z)

\* v.multiplyScalar(k), k in units of 1e-8
VScale(v, k) == Vec3(FMul(v.x, k), FMul(v.y, k), FMul(v.z, k))

\* a.dot(b), b in units of 1e-8
VDot(a, b) == FMul(a.x, b.x) + FMul(a.y, b.y) + FMul(a.z, b.z)

\* a.cross(b), b in units of 1e-8
VCross(a, b) ==
  Vec3(FMul(a.y, b.z) - FMul(a.z, b.y),
       FMul(a.z, b.x) - FMul(a.x, b.z),
       FMul(a.x, b.y) - FMul(a.y, b.x))

\* v.divideScalar(l || 1), the result in units of 1e-8
VDivide(v, l) ==
  IF l = 0 THEN Vec3(v.x * One, v.y * One, v.z * One)
  ELSE Vec3(FDiv(v.x, l), FDiv(v.y, l), FDiv(v.z, l))

\* v.normalize(): v.divideScalar(v.length() || 1)
VNormalize(v) == VDivide(v, VLength(v))

\* v + q.w * t + cross(q.xyz, t)
RotateWith(v, q, tx, ty, tz) ==
  Vec3(v.x + FMul(tx, q.w) + FMul(tz, q.y) - FMul(ty, q.z),
       v.y + FMul(ty, q.w) + FMul(tx, q.z) - FMul(tz, q.x),
       v.z + FMul(tz, q.w) + FMul(ty, q.x) - FMul(tx, q.y))

\* v.applyQuaternion(q): t = 2 * cross(q.xyz, v); v + q.w * t + cross(q.xyz, t)
applyQuaternion(v, q) ==
  RotateWith(v, q, 2 * (FMul(v.z, q.y) - FMul(v.y, q.z)),
                   2 * (FMul(v.x, q.z) - FMul(v.z, q.x)),
                   2 * (FMul(v.y, q.x) - FMul(v.x, q.y)))

\* a.multiply(b)
QMultiply(a, b) ==
  Quat(FMul(a.x, b.w) + FMul(a.w, b.x) + FMul(a.y, b.z) - FMul(a.z, b.y),
       FMul(a.y, b.w) + FMul(a.w, b.y) + FMul(a.z, b.x) - FMul(a.x, b.z),
       FMul(a.z, b.w) + FMul(a.w, b.z) + FMul(a.x, b.y) - FMul(a.y, b.x),
       FMul(a.w, b.w) - FMul(a.x, b.x) - FMul(a.y, b.y) - FMul(a.z, b.z))

\* q.length()
QLength(q) == FSqrt(FMul(q.x, q.x) + FMul(q.y, q.y) + FMul(q.z, q.z) + FMul(q.w, q.w))

\* Faulty variant of q.normalize(): the quaternion left as it is
QUnnormalized(q) == q

\* q divided by its length l: the identity when the length is 0
QDivide(q, l) ==
  IF l = 0 THEN Quat(0, 0, 0, One)
  ELSE Quat(FDiv(q.x, l), FDiv(q.y, l), FDiv(q.z, l), FDiv(q.w, l))

\* q.normalize()
QNormalize(q) == QDivide(q, QLength(q))

\* The quaternion of a unit axis with s = sin(angle / 2), c = cos(angle / 2)
AxisQuat(axis, sn, cs) == Quat(FMul(axis.x, sn), FMul(axis.y, sn), FMul(axis.z, sn), cs)

\* new THREE.Quaternion().setFromAxisAngle(axis, angle), axis a unit vector
setFromAxisAngle(axis, angle) == AxisQuat(axis, FSin(angle \div 2), FCos(angle \div 2))

----------------------------------------------------------------------------
(* physics/constants.ts, continued                                         *)

RHO == 122500000                      \* 1.225 kg/m^3
GRAVITY == 981000000                  \* 9.81 m/s^2
MASS == 420                           \* kg
WING_AREA_S == 16                     \* m^2
ALPHA_0 == -Deg(2, 1)
CL_ALPHA == 550000000                 \* 5.5 per radian
CL_MAX == 120000000                   \* 1.2
CL_MAX_NEG == 90000000                \* 0.9
STALL_ALPHA_POS == Deg(12, 1)
STALL_ALPHA_NEG == -Deg(10, 1)
CD_0 == 1800000                       \* 0.018
K_DRAG == 4500000                     \* 0.045
SIDE_DRAG_FACTOR == 250000000         \* 2.5
ROLL_DAMP == 15000000                 \* 0.15
PITCH_DAMP == 12000000                \* 0.12
YAW_DAMP == 25000000                  \* 0.25
WEATHERVANE_STRENGTH == 30000000      \* 0.3
MAX_ROLL_RATE == Deg(70, 1)           \* rad/s
MAX_PITCH_RATE == Deg(35, 1)          \* rad/s
MAX_YAW_RATE == Deg(25, 1)            \* rad/s
RUDDER_COORDINATION == 0

----------------------------------------------------------------------------
(* physics/ThermalSystem: the wind field                                   *)
(* Vertical wind in um/s; the factors of a thermal's contribution in units *)
(* of 1e-8.                                                                *)

THERMAL_SINK_PEAK_RADIUS == 250       \* m
THERMAL_SINK_WIDTH == 120             \* m
CLOUD_BASE == 1200                    \* m
THERMAL_TURBULENCE_AMPLITUDE == 300000  \* 0.3 m/s

\* Taylor series of exp(-f) about 0 for f in [0, 1): term k = -term (k-1) * f / k
RECURSIVE ExpSeries(_, _, _, _)
RECURSIVE ExpTerm(_, _, _, _)
ExpSeries(f, term, k, acc) ==
  IF term = 0 \/ k > 20 THEN acc
  ELSE ExpTerm(f, -(FMul(term, f) \div k), k, acc)
ExpTerm(f, nxt, k, acc) == ExpSeries(f, nxt, k + 1, acc + nxt)

\* e * exp(-1), n times
RECURSIVE ExpWhole(_, _)
ExpWhole(e, n) == IF n = 0 THEN e ELSE ExpWhole(FMul(e, 36787944), n - 1)

\* Math.exp(-y) for y >= 0; below 1e-8 (y >= 19) it is 0
ExpNeg(y) ==
  IF y >= 19 * One THEN 0
  ELSE ExpWhole(ExpSeries(y % One, One, 1, One), y \div One)

\* Math.exp(-(d * d) / (width * width)) for a distance d and a width in mm;
\* from |d| = 4.4 width on the exponent is beyond -19
Gaussian(d, width) ==
  IF 10 * Abs(d) >= 44 * width THEN 0 ELSE ExpNeg(Square(FDiv(d, width)))

\* Height fade: above cloud base, and near the ground
HeightFade(y) ==
  IF y < 100 * Milli THEN MulDiv(y, One, 100 * Milli) ELSE One

HeightFactor(y) ==
  IF y > CLOUD_BASE * Milli
  THEN FMul(IF y - CLOUD_BASE * Milli >= 400 * Milli THEN 0
            ELSE One - MulDiv(y - CLOUD_BASE * Milli, One, 400 * Milli),
            HeightFade(y))
  ELSE HeightFade(y)

\* Faulty variant of the age factor: no ramp up, a thermal is at full strength
\* from its birth
AgeRampFromBirth(lifeFraction) ==
  IF lifeFraction > 80000000 THEN (One - lifeFraction) * 5 ELSE One

\* Age factor of a life fraction: ramp up below 0.1, fade out above 0.8
AgeRamp(lifeFraction) ==
  IF lifeFraction < One \div 10 THEN lifeFraction * 10
  ELSE IF lifeFraction > 80000000 THEN (One - lifeFraction) * 5
  ELSE One

AgeFactor(thermal) == AgeRamp(FDiv(thermal.age, thermal.lifetime))

\* (coreW - sinkW) * heightFactor * ageFactor at the distance r from the center
ContributionAt(thermal, r, heightFactor) ==
  FMul(FMul(FMul(thermal.strength, Gaussian(r, thermal.radius))
              - FMul(FMul(thermal.strength, 40000000),
                     Gaussian(r - THERMAL_SINK_PEAK_RADIUS * Milli, THERMAL_SINK_WIDTH * Milli)),
            heightFactor),
       AgeFactor(thermal))

thermalContribution(position, thermal) ==
  ContributionAt(thermal,
                 Hypot(position.x - thermal.center.x, position.z - thermal.center.y, 0),
                 HeightFactor(position.y))

\* The for loop over thermalSystem.thermals: totalW after the first n thermals
RECURSIVE SumContributions(_, _, _)
SumContributions(position, thermals, n) ==
  IF n = 0 THEN 0
  ELSE SumContributions(position, thermals, n - 1) + thermalContribution(position, thermals[n])

\* k * n reduced modulo 2 PI, for 0 < k < 2 PI (k and the result in units of 1e-8)
Turns(k, n) == Sign(n) * MulDivQR(k, Abs(n), 2 * MathPI, Radix(2 * MathPI)).r

\* sin(time * 2 + x * 0.01) * cos(time * 1.5 + z * 0.01) * amplitude
Turbulence(position, time) ==
  FMul(FMul(FSin(Turns(200000, time) + Turns(1000, position.x)),
            FCos(Turns(150000, time) + Turns(1000, position.z))),
       THERMAL_TURBULENCE_AMPLITUDE)

\* baseSink (-0.3 m/s) + the thermals' contributions + turbulence
getVerticalWindAt(position, thermalSystem) ==
  -300000 + SumContributions(position, thermalSystem.thermals, Len(thermalSystem.thermals))
    + Turbulence(position, thermalSystem.time)

\* shearFactor = 1 + (position.y / 1000) * 0.1
getWindFieldAt(position, thermalSystem) ==
  [horizontal |-> VScale(thermalSystem.wind, One + position.y * 10),
   vertical |-> getVerticalWindAt(position, thermalSystem)]

----------------------------------------------------------------------------
(* physics/FlightPhysics.ts                                                *)
(* GliderState: position (mm), velocity (um/s), quaternion, angularVelocity *)
(* (1e-8 rad/s).  ControlInput: pitch, roll, yaw in units of 1e-8.         *)
(* WindField: horizontal (um/s), vertical (um/s).  Forces are in mN.       *)

getForwardVector(quaternion) == applyQuaternion(Vec3(0, 0, One), quaternion)
getUpVector(quaternion) == applyQuaternion(Vec3(0, One, 0), quaternion)
getRightVector(quaternion) == applyQuaternion(Vec3(One, 0, 0), quaternion)

\* Math.atan2(-upComponent, forwardComponent) of the normalized velocity
AlphaOf(velocityNorm, forward, up) ==
  FAtan2(-VDot(velocityNorm, up), VDot(velocityNorm, forward))

calculateAngleOfAttack(velocity, quaternion) ==
  IF VLength(velocity) < Micro \div 10 THEN 0
  ELSE AlphaOf(VNormalize(velocity), getForwardVector(quaternion), getUpVector(quaternion))

\* calculateCL with Math.max(0.5, ...) left out of both post-stall factors
calculateCLNoFloor(alpha) ==
  IF alpha > STALL_ALPHA_POS
  THEN FMul(CL_MAX, One - (alpha - STALL_ALPHA_POS) * 3)
  ELSE IF alpha < STALL_ALPHA_NEG
  THEN FMul(-CL_MAX_NEG, One - (STALL_ALPHA_NEG - alpha) * 3)
  ELSE Max(-CL_MAX_NEG, Min(CL_MAX, FMul(CL_ALPHA, alpha - ALPHA_0)))

calculateCL(alpha) ==
  IF alpha > STALL_ALPHA_POS
  THEN LET stallExcess == alpha - STALL_ALPHA_POS
           postStallFactor == Max(One \div 2, One - stallExcess * 3)
       IN FMul(CL_MAX, postStallFactor)
  ELSE IF alpha < STALL_ALPHA_NEG
  THEN LET stallExcess == STALL_ALPHA_NEG - alpha
           postStallFactor == Max(One \div 2, One - stallExcess * 3)
       IN FMul(-CL_MAX_NEG, postStallFactor)
  ELSE LET cl == FMul(CL_ALPHA, alpha - ALPHA_0)
       IN Max(-CL_MAX_NEG, Min(CL_MAX, cl))

calculateCD(cl) == CD_0 + FMul(K_DRAG, FMul(cl, cl))

\* windField.horizontal with windField.vertical added to its y
FullWind(windField) ==
  Vec3(windField.horizontal.x, windField.horizontal.y + windField.vertical, windField.horizontal.z)

\* q = 0.5 * rho * V^2, in mPa; V^2 in 1e-3 m^2/s^2
DynamicPressure(airspeed) ==
  FMul(FMul(One \div 2, RHO), MulDiv(airspeed \div 10, airspeed, One))

\* The side force: against the side component of the air velocity
SideForce(right, q, sideComponent) ==
  VScale(VScale(right, -Sign(sideComponent) * One),
         FMul(FMul(MulDiv(q * WING_AREA_S, Abs(sideComponent), Micro), One \div 10),
              SIDE_DRAG_FACTOR))

\* The three forces of an air velocity at or above 0.5 m/s
AeroForcesAt(airVelocity, airVelocityNorm, right, q, cl) ==
  [lift |-> VScale(VNormalize(VCross(airVelocityNorm, right)), FMul(q * WING_AREA_S, cl)),
   drag |-> VScale(Vec3(-airVelocityNorm.x, -airVelocityNorm.y, -airVelocityNorm.z),
                   FMul(q * WING_AREA_S, calculateCD(cl))),
   sideForce |-> SideForce(right, q, VDot(airVelocity, right))]

\* The forces of the velocity relative to the air
AeroForcesIn(airVelocity, quaternion) ==
  IF VLength(airVelocity) < Micro \div 2
  THEN [lift |-> Vec3(0, 0, 0), drag |-> Vec3(0, 0, 0), sideForce |-> Vec3(0, 0, 0)]
  ELSE AeroForcesAt(airVelocity, VNormalize(airVelocity), getRightVector(quaternion),
                    DynamicPressure(VLength(airVelocity)),
                    calculateCL(calculateAngleOfAttack(airVelocity, quaternion)))

\* Faulty variant of calculateAeroForces: the speed over the ground, the wind
\* not subtracted
calculateAeroForcesGroundSpeed(velocity, quaternion, windField) ==
  AeroForcesIn(velocity, quaternion)

calculateAeroForces(velocity, quaternion, windField) ==
  AeroForcesIn(VSub(velocity, FullWind(windField)), quaternion)

\* Faulty variant of the interpolation: ten times the step, which overshoots
\* the target at dt = 0.05
ApproachTenfold(rate, target, response, deltaTime) ==
  rate + MulDiv((target - rate) * response, deltaTime * 10, Milli)

\* rate + (target - rate) * response * deltaTime
Approach(rate, target, response, deltaTime) ==
  rate + MulDiv((target - rate) * response, deltaTime, Milli)

applyControlInputs(angularVelocity, controls, deltaTime) ==
  LET targetRollRate == FMul(controls.roll, MAX_ROLL_RATE)
      targetPitchRate == FMul(-controls.pitch, MAX_PITCH_RATE)
      autoYaw == FMul(FMul(controls.roll, MAX_YAW_RATE), RUDDER_COORDINATION)
      manualYaw == FMul(-controls.yaw, MAX_YAW_RATE)
      targetYawRate == manualYaw + autoYaw
  IN Vec3(Approach(angularVelocity.x, targetPitchRate, 4, deltaTime),
          Approach(angularVelocity.y, targetYawRate, 4, deltaTime),
          Approach(angularVelocity.z, targetRollRate, 5, deltaTime))

\* rate * (1 - damp * deltaTime * 10)
Damp(rate, damp, deltaTime) == FMul(rate, One - MulDiv(damp * 10, deltaTime, Milli))

applyDamping(angularVelocity, deltaTime) ==
  Vec3(Damp(angularVelocity.x, PITCH_DAMP, deltaTime),
       Damp(angularVelocity.y, YAW_DAMP, deltaTime),
       Damp(angularVelocity.z, ROLL_DAMP, deltaTime))

\* The yaw rate turned toward the velocity when the sideslip is at least 0.01
WeathervaneYaw(angularVelocity, airspeed, sideslip, deltaTime) ==
  IF Abs(sideslip) < One \div 100 THEN angularVelocity
  ELSE [angularVelocity EXCEPT
          !.y = angularVelocity.y
                  + MulDiv((FMul(FMul(-sideslip, WEATHERVANE_STRENGTH),
                                 Min(One, MulDiv(airspeed, One, 30 * Micro)))
                              - angularVelocity.y) * 3, deltaTime, Milli)]

applyWeathervane(angularVelocity, velocity, quaternion, deltaTime) ==
  IF VLength(velocity) < 5 * Micro THEN angularVelocity
  ELSE WeathervaneYaw(angularVelocity, VLength(velocity),
                      VDot(VNormalize(velocity), getRightVector(quaternion)), deltaTime)

\* Faulty variant of the clamp: the frame time as it comes
UnclampedDt(deltaTime) == deltaTime

\* const dt = Math.min(deltaTime, 0.05)
ClampDt(deltaTime) == Min(deltaTime, 50)

\* gravity + lift + drag + sideForce, in mN
TotalForce(aeroForces) ==
  VAdd(VAdd(VAdd(Vec3(0, -FMul(GRAVITY, MASS * Milli), 0), aeroForces.lift), aeroForces.drag),
       aeroForces.sideForce)

\* velocity + (totalForce / MASS) * dt; mN / kg = mm/s^2, in um/s^2
Accelerate(velocity, totalForce, dt) ==
  Vec3(velocity.x + MulDiv(MulDiv(totalForce.x, Milli, MASS), dt, Milli),
       velocity.y + MulDiv(MulDiv(totalForce.y, Milli, MASS), dt, Milli),
       velocity.z + MulDiv(MulDiv(totalForce.z, Milli, MASS), dt, Milli))

\* position + newVelocity * dt
Move(position, newVelocity, dt) ==
  [position |-> Vec3(position.x + MulDiv(newVelocity.x, dt, Micro),
                     position.y + MulDiv(newVelocity.y, dt, Micro),
                     position.z + MulDiv(newVelocity.z, dt, Micro)),
   velocity |-> newVelocity]

\* Velocity and position after the force integration (before the ground check)
Integrate(state, windField, dt) ==
  Move(state.position,
       Accelerate(state.velocity,
                  TotalForce(calculateAeroForces(state.velocity, state.quaternion, windField)),
                  dt),
       dt)

\* Faulty variant of the pitch stability: the nudge turned away from alpha =
\* 4 degrees
PitchStabilityAway(pitchRate, alpha, controls, dt) ==
  IF Abs(alpha - Deg(4, 1)) > Deg(2, 1) /\ Abs(controls.pitch) < 30000000
  THEN pitchRate - MulDiv(FMul(alpha - Deg(4, 1), One \div 2) * 3, dt, Milli)
  ELSE pitchRate

\* Faulty variant of the pitch stability: not suppressed by the pilot's pitch
\* input
PitchStabilityAnyInput(pitchRate, alpha, controls, dt) ==
  IF Abs(alpha - Deg(4, 1)) > Deg(2, 1)
  THEN pitchRate + MulDiv(FMul(alpha - Deg(4, 1), One \div 2) * 3, dt, Milli)
  ELSE pitchRate

\* Pitch stability: the nudge of the pitch rate toward alpha = 4 degrees
PitchStability(pitchRate, alpha, controls, dt) ==
  LET targetAlpha == Deg(4, 1)
      alphaError == alpha - targetAlpha
  IN IF Abs(alphaError) > Deg(2, 1) /\ Abs(controls.pitch) < 30000000
     THEN LET stabilityCorrection == FMul(alphaError, One \div 2)
          IN pitchRate + MulDiv(stabilityCorrection * 3, dt, Milli)
     ELSE pitchRate

\* Stall nose-drop and recovery
StallCorrection(pitchRate, alpha, dt) ==
  IF alpha > STALL_ALPHA_POS
  THEN LET stallSeverity == FDiv(alpha - STALL_ALPHA_POS, MathPI \div 18)
           noseDropRate == FMul(150000000, Min(One, stallSeverity))
       IN pitchRate + MulDiv(noseDropRate * 5, dt, Milli)
  ELSE IF alpha < STALL_ALPHA_NEG
  THEN LET stallSeverity == FDiv(STALL_ALPHA_NEG - alpha, MathPI \div 18)
           noseUpRate == FMul(-150000000, Min(One, stallSeverity))
       IN pitchRate + MulDiv(noseUpRate * 5, dt, Milli)
  ELSE pitchRate

\* The pitch stability and stall corrections of the pitch rate
CorrectPitch(angularVelocity, alpha, controls, dt) ==
  [angularVelocity EXCEPT
     !.x = StallCorrection(PitchStability(angularVelocity.x, alpha, controls, dt), alpha, dt)]

\* Faulty variant of the angular step: the angle of attack of the corrections
\* taken from the velocity after the integration
AngularStepUpdatedVelocity(state, controls, windField, dt, newVelocity) ==
  CorrectPitch(applyWeathervane(applyDamping(applyControlInputs(state.angularVelocity,
                                                                controls, dt), dt),
                                newVelocity, state.quaternion, dt),
               calculateAngleOfAttack(VSub(newVelocity, FullWind(windField)),
                                      state.quaternion),
               controls, dt)

\* The angular velocity of the step: controls, damping, weathervane, then the
\* pitch stability and stall corrections on the angle of attack
AngularStep(state, controls, windField, dt, newVelocity) ==
  CorrectPitch(applyWeathervane(applyDamping(applyControlInputs(state.angularVelocity,
                                                                controls, dt), dt),
                                newVelocity, state.quaternion, dt),
               calculateAngleOfAttack(VSub(state.velocity, FullWind(windField)),
                                      state.quaternion),
               controls, dt)

\* Faulty variant of the orientation update: first-order integration
\* q + q * (0, w) * dt / 2, not renormalized
EulerOrientation(quaternion, newAngularVel, dt) ==
  LET half == Quat(MulDiv(newAngularVel.x, dt, 2 * Milli),
                   MulDiv(newAngularVel.y, dt, 2 * Milli),
                   MulDiv(newAngularVel.z, dt, 2 * Milli), 0)
      dq == QMultiply(quaternion, half)
  IN Quat(quaternion.x + dq.x, quaternion.y + dq.y,
          quaternion.z + dq.z, quaternion.w + dq.w)

\* The orientation update
UpdateOrientation(quaternion, newAngularVel, dt) ==
  IF VLength(newAngularVel) > One \div 10000
  THEN LET pitchQ == setFromAxisAngle(Vec3(One, 0, 0), MulDiv(newAngularVel.x, dt, Milli))
           yawQ == setFromAxisAngle(Vec3(0, One, 0), MulDiv(newAngularVel.y, dt, Milli))
           rollQ == setFromAxisAngle(Vec3(0, 0, One), MulDiv(newAngularVel.z, dt, Milli))
       IN QNormalize(QMultiply(QMultiply(QMultiply(quaternion, pitchQ), yawQ), rollQ))
  ELSE quaternion

\* Faulty variant of the ground collision: the altitude clamped only when
\* descending
GroundClampWhenDescending(newPosition, newVelocity) ==
  IF newPosition.y < 5 * Milli /\ newVelocity.y < 0
  THEN [position |-> [newPosition EXCEPT !.y = 5 * Milli],
        velocity |-> Vec3(FMul(newVelocity.x, 98000000), 0, FMul(newVelocity.z, 98000000))]
  ELSE [position |-> newPosition, velocity |-> newVelocity]

\* Faulty variant of the ground collision: the contact response applied
\* whatever the sign of the vertical velocity
GroundAlwaysStops(newPosition, newVelocity) ==
  IF newPosition.y < 5 * Milli
  THEN [position |-> [newPosition EXCEPT !.y = 5 * Milli],
        velocity |-> Vec3(FMul(newVelocity.x, 98000000), 0, FMul(newVelocity.z, 98000000))]
  ELSE [position |-> newPosition, velocity |-> newVelocity]

\* Ground collision: position and velocity after the check at 5 m
GroundCollision(newPosition, newVelocity) ==
  IF newPosition.y < 5 * Milli
  THEN [position |-> [newPosition EXCEPT !.y = 5 * Milli],
        velocity |-> IF newVelocity.y < 0
                     THEN Vec3(FMul(newVelocity.x, 98000000), 0, FMul(newVelocity.z, 98000000))
                     ELSE newVelocity]
  ELSE [position |-> newPosition, velocity |-> newVelocity]

\* The returned state: the ground check's position and velocity, the updated
\* orientation and the new angular velocity
NewState(quaternion, newAngularVel, dt, ground) ==
  [position |-> ground.position,
   velocity |-> ground.velocity,
   quaternion |-> UpdateOrientation(quaternion, newAngularVel, dt),
   angularVelocity |-> newAngularVel]

\* The angular, orientation and ground stages after the integration
StepAfterIntegration(state, controls, windField, dt, moved) ==
  NewState(state.quaternion,
           AngularStep(state, controls, windField, dt, moved.velocity),
           dt,
           GroundCollision(moved.position, moved.velocity))

\* The step with the clamped timestep
StepWith(state, controls, windField, dt) ==
  StepAfterIntegration(state, controls, windField, dt, Integrate(state, windField, dt))

updatePhysics(state, controls, windField, deltaTime) ==
  StepWith(state, controls, windField, ClampDt(deltaTime))

\* Math.asin(x) = atan2(x, sqrt(1 - x^2))
FAsin(x) == FAtan2(x, FSqrt(One - FMul(x, x)))

\* radians to degrees, in units of 1e-6 degree
ToDegrees(rad) == MulDiv(rad, 180 * Micro, MathPI)

\* Faulty variant of the stall flag: the thresholds included
IsStallingInclusive(alpha) == alpha >= STALL_ALPHA_POS \/ alpha <= STALL_ALPHA_NEG

\* const isStalling = alpha > STALL_ALPHA_POS || alpha < STALL_ALPHA_NEG
IsStalling(alpha) == alpha > STALL_ALPHA_POS \/ alpha < STALL_ALPHA_NEG

\* The returned telemetry record
TelemetryOf(state, airspeed, heading, bankAngle, pitchAngle, alpha) ==
  [airspeed |-> airspeed,
   groundSpeed |-> Hypot(state.velocity.x, 0, state.velocity.z),
   altitude |-> state.position.y,
   verticalSpeed |-> state.velocity.y,
   heading |-> (heading + 360 * Micro) % (360 * Micro),
   bankAngle |-> bankAngle,
   pitchAngle |-> pitchAngle,
   angleOfAttack |-> ToDegrees(alpha),
   isStalling |-> IsStalling(alpha)]

\* The telemetry of the air velocity and the body axes
TelemetryIn(state, airVelocity, forward, right) ==
  TelemetryOf(state, VLength(airVelocity),
              ToDegrees(FAtan2(forward.x, forward.z)),
              ToDegrees(FAsin(right.y)),
              ToDegrees(FAsin(forward.y)),
              calculateAngleOfAttack(airVelocity, state.quaternion))

getTelemetry(state, windField) ==
  TelemetryIn(state, VSub(state.velocity, FullWind(windField)),
              getForwardVector(state.quaternion), getRightVector(state.quaternion))

\* The state of a heading quaternion: initialSpeed = 30 along its forward axis
InitialStateWith(position, quat) ==
  [position |-> position,
   velocity |-> applyQuaternion(Vec3(0, 0, 30 * Micro), quat),
   quaternion |-> quat,
   angularVelocity |-> Vec3(0, 0, 0)]

createInitialState(position, heading) ==
  InitialStateWith(position, setFromAxisAngle(Vec3(0, One, 0), heading))

----------------------------------------------------------------------------
(* State                                                                   *)

VARIABLES
  thermalSystem,   \* thermalSystemRef.current : ThermalSystemState
  glider,          \* gliderStateRef.current : GliderState
  hist,            \* the calls made so far and the population they started from
  last             \* the last call: its name, its arguments, the state it was given

vars == <<thermalSystem, glider, hist, last>>

----------------------------------------------------------------------------
(* Inputs                                                                  *)

NumSeeds == 2
MaxUpdates == 2
NumVariants == 2

\* The generator states a call may find Math.random() in
Seeds == {(i * 7919 + 1) % 65536 : i \in 1..NumSeeds}

\* Remaining life of the thermals of a population
Remaining(thermals) == {thermals[i].lifetime - thermals[i].age : i \in 1..Len(thermals)}
SetMin(S) == CHOOSE x \in S : \A y \in S : x <= y
SetMax(S) == CHOOSE x \in S : \A y \in S : x >= y

\* deltaTime values with dt >= 0: no time, one thermal-update period, a long
\* pause, and the times at which the first and the last thermal reach the
\* end of their life exactly.
DeltaTimes(state) ==
  {0, 500, 200 * Milli}
    \cup (IF state.thermals = << >> THEN {}
          ELSE {d \in {SetMin(Remaining(state.thermals)), SetMax(Remaining(state.thermals))} : d >= 0})

\* A thermal of an arbitrary starting population
TestThermal(i, v) ==
  LET xs == <<5001 * Milli, -5001 * Milli, 0, 4999 * Milli, -3000 * Milli>>
      lifetime == (180 + ((i * 37) % 4) * 100) * Milli
  IN [id |-> 100 * v + i,
      center |-> [x |-> xs[((i + v) % 5) + 1], y |-> xs[((2 * i + v) % 5) + 1]],
      radius |-> THERMAL_CORE_RADIUS * Milli,
      strength |-> THERMAL_W_MIN * Micro,
      age |-> ((i + v) % 3) * 90 * Milli,
      lifetime |-> lifetime]

\* Starting populations: empty, smaller than, equal to and larger than THERMAL_COUNT
Populations ==
  {[i \in 1..n |-> TestThermal(i, v)] :
     n \in {0, 1, THERMAL_COUNT - 1, THERMAL_COUNT, THERMAL_COUNT + 1},
     v \in 0..(NumVariants - 1)}

----------------------------------------------------------------------------
(* Thermal field: createThermalSystem, then updateThermalSystem calls      *)

InitThermal ==
  /\ \E seed \in Seeds : thermalSystem = createThermalSystem(seed)
  /\ glider = createInitialState(Vec3(0, 500 * Milli, 0), 0)
  /\ hist = [calls |-> 0, startCount |-> THERMAL_COUNT]
  /\ last = [op |-> "createThermalSystem"]

\* Any starting population, with the wind of createThermalSystem
InitThermalAny ==
  /\ \E p \in Populations :
       /\ thermalSystem = [createThermalSystem(0) EXCEPT !.thermals = p]
       /\ hist = [calls |-> 0, startCount |-> Len(p)]
  /\ glider = createInitialState(Vec3(0, 500 * Milli, 0), 0)
  /\ last = [op |-> "none"]

UpdateThermals(deltaTime, seed) ==
  /\ hist.calls < MaxUpdates
  /\ thermalSystem' = updateThermalSystem(thermalSystem, deltaTime, seed)
  /\ hist' = [hist EXCEPT !.calls = @ + 1]
  /\ last' = [op |-> "updateThermalSystem", deltaTime |-> deltaTime, before |-> thermalSystem]
  /\ UNCHANGED glider

\* updateThermalSystem with dt >= 0
UpdateThermalSystem ==
  \E deltaTime \in DeltaTimes(thermalSystem), seed \in Seeds : UpdateThermals(deltaTime, seed)

\* updateThermalSystem with a negative dt
UpdateThermalSystemBack ==
  \E seed \in Seeds : UpdateThermals(-500, seed)

NextThermal == UpdateThermalSystem
SpecThermal == InitThermal /\ [][NextThermal]_vars

\* updateThermalSystem on any population: no time, one thermal-update period
\* of the game loop, a long pause
UpdateThermalSystemAny ==
  \E deltaTime \in {0, 500, 200 * Milli}, seed \in Seeds : UpdateThermals(deltaTime, seed)

NextThermalAny == UpdateThermalSystemAny \/ UpdateThermalSystemBack
SpecThermalAny == InitThermalAny /\ [][NextThermalAny]_vars

----------------------------------------------------------------------------
(* Claims about the thermal field                                          *)

Updated == last.op = "updateThermalSystem"

\* The thermals of the state given to the last update that it keeps, in order
KeptThermals ==
  SelectSeq(last.before.thermals, LAMBDA t : t.age + last.deltaTime <= t.lifetime)

\* C1 as stated: after any sequence of updateThermalSystem calls from any
\* starting population (also one larger than THERMAL_COUNT) the number of
\* active thermals equals THERMAL_COUNT.
C1_CountAlwaysTarget ==
  hist.calls > 0 => Len(thermalSystem.thermals) = THERMAL_COUNT

\* C1 amended: from a starting population of at most THERMAL_COUNT thermals,
\* after any sequence of updateThermalSystem calls with any dt the number of
\* active thermals equals THERMAL_COUNT; a larger population is never cut
\* down to the target: the update only spawns, it removes dead thermals only.
C1_CountTargetFromAtMostTarget ==
  hist.calls > 0 =>
    /\ hist.startCount <= THERMAL_COUNT => Len(thermalSystem.thermals) = THERMAL_COUNT
    /\ Len(thermalSystem.thermals) = Max(THERMAL_COUNT, Len(KeptThermals))

\* C1 witness: an update refilled a dying, smaller population to the target
C1_Witness ==
  /\ Updated
  /\ hist.startCount < THERMAL_COUNT
  /\ Len(KeptThermals) < Len(last.before.thermals)
  /\ Len(thermalSystem.thermals) = THERMAL_COUNT

\* C2: from createThermalSystem, with dt >= 0, every thermal has
\* 0 <= age <= lifetime; the thermals of the previous state with
\* age + dt <= lifetime (equality included) are exactly the ones kept, aged by
\* dt, and every other thermal of the new state is newly spawned (age 0).
C2_AgeWithinLifetime ==
  /\ \A i \in 1..Len(thermalSystem.thermals) :
       /\ 0 <= thermalSystem.thermals[i].age
       /\ thermalSystem.thermals[i].age <= thermalSystem.thermals[i].lifetime
  /\ Updated =>
       /\ Len(KeptThermals) <= Len(thermalSystem.thermals)
       /\ \A i \in 1..Len(thermalSystem.thermals) :
            IF i <= Len(KeptThermals)
            THEN /\ thermalSystem.thermals[i].id = KeptThermals[i].id
                 /\ thermalSystem.thermals[i].lifetime = KeptThermals[i].lifetime
                 /\ thermalSystem.thermals[i].age = KeptThermals[i].age + last.deltaTime
            ELSE thermalSystem.thermals[i].age = 0

\* C2 witness: one update both kept a thermal that reached its lifetime
\* exactly and removed one that went past it
C2_Witness ==
  /\ Updated
  /\ last.deltaTime > 0
  /\ \E i \in 1..Len(KeptThermals) :
       /\ KeptThermals[i].age + last.deltaTime = KeptThermals[i].lifetime
       /\ thermalSystem.thermals[i].age = thermalSystem.thermals[i].lifetime
  /\ \E i \in 1..Len(last.before.thermals) :
       last.before.thermals[i].age + last.deltaTime > last.before.thermals[i].lifetime

\* A coordinate after the toroidal wrap, as C10 states it
Wrapped(raw) ==
  IF raw > (WORLD_SIZE * Milli) \div 2 THEN raw - WORLD_SIZE * Milli
  ELSE IF raw < -((WORLD_SIZE * Milli) \div 2) THEN raw + WORLD_SIZE * Milli
  ELSE raw

\* C10: the center of every surviving thermal is its drifted center with
\* WORLD_SIZE subtracted when beyond +WORLD_SIZE/2 and added when beyond
\* -WORLD_SIZE/2, on each axis independently; 5001 m becomes -4999 m.
C10_ToroidalWrap ==
  Updated =>
    \A i \in 1..Len(KeptThermals) :
      LET rawX == KeptThermals[i].center.x + Drift(last.before.wind.x, last.deltaTime)
          rawY == KeptThermals[i].center.y + Drift(last.before.wind.z, last.deltaTime)
          c == thermalSystem.thermals[i].center
      IN /\ c.x = Wrapped(rawX)
         /\ c.y = Wrapped(rawY)
         /\ rawX = 5001 * Milli => c.x = -4999 * Milli
         /\ rawY = -5001 * Milli => c.y = 4999 * Milli

\* C10 witness: a survivor drifted to x = 5001 m and was wrapped to -4999 m
\* while its other coordinate stayed, and another was wrapped at the negative edge
C10_Witness ==
  /\ Updated
  /\ \E i \in 1..Len(KeptThermals) :
       /\ KeptThermals[i].center.x + Drift(last.before.wind.x, last.deltaTime) = 5001 * Milli
       /\ thermalSystem.thermals[i].center.x = -4999 * Milli
       /\ thermalSystem.thermals[i].center.y
            = KeptThermals[i].center.y + Drift(last.before.wind.z, last.deltaTime)
  /\ \E i \in 1..Len(KeptThermals) :
       /\ KeptThermals[i].center.x + Drift(last.before.wind.x, last.deltaTime) < -5000 * Milli
       /\ thermalSystem.thermals[i].center.x > 0

----------------------------------------------------------------------------
(* Session: createThermalSystem at the start, then updates and resets      *)

\* handleReset: a new glider state and a new thermal field
HandleReset ==
  \E seed \in Seeds :
    /\ hist.calls < MaxUpdates
    /\ glider' = createInitialState(Vec3(0, 500 * Milli, 0), 0)
    /\ thermalSystem' = createThermalSystem(seed)
    /\ hist' = [hist EXCEPT !.calls = @ + 1]
    /\ last' = [op |-> "handleReset", before |-> thermalSystem]

NextSession == UpdateThermalSystem \/ UpdateThermalSystemBack \/ HandleReset
SpecSession == InitThermal /\ [][NextSession]_vars

\* C15: createThermalSystem, at session start and on every reset, returns
\* exactly THERMAL_COUNT thermals, each of age 0, and elapsed time 0; from
\* there the count is THERMAL_COUNT after every updateThermalSystem call.
C15_SessionPopulation ==
  /\ Len(thermalSystem.thermals) = THERMAL_COUNT
  /\ last.op \in {"createThermalSystem", "handleReset"} =>
       /\ thermalSystem.time = 0
       /\ \A i \in 1..Len(thermalSystem.thermals) : thermalSystem.thermals[i].age = 0

\* C15 witness: a reset replaced a field that had aged and lost thermals
C15_Witness ==
  /\ last.op = "handleReset"
  /\ last.before.time > 0
  /\ \E i \in 1..Len(last.before.thermals) : last.before.thermals[i].age = 0
  /\ \E i \in 1..Len(last.before.thermals) : last.before.thermals[i].age > 0
  /\ Len(thermalSystem.thermals) = THERMAL_COUNT
  /\ thermalSystem.time = 0

\* The thermals of the current field that the last call spawned
SpawnedIndexes ==
  IF Updated THEN (Len(KeptThermals) + 1)..Len(thermalSystem.thermals)
  ELSE IF last.op \in {"createThermalSystem", "handleReset"} THEN 1..Len(thermalSystem.thermals)
  ELSE {}

\* C20: in every state reachable from createThermalSystem every thermal has
\* strength in [THERMAL_W_MIN, THERMAL_W_MAX], radius in [0.8, 1.2] x
\* THERMAL_CORE_RADIUS and lifetime in [180, 480] s; every thermal a call has
\* just spawned has age 0 and a center within 80% of the world half-extent
\* on both axes.
C20_SpawnRanges ==
  /\ \A i \in 1..Len(thermalSystem.thermals) :
       /\ thermalSystem.thermals[i].strength >= THERMAL_W_MIN * Micro
       /\ thermalSystem.thermals[i].strength <= THERMAL_W_MAX * Micro
       /\ 10 * thermalSystem.thermals[i].radius >= 8 * THERMAL_CORE_RADIUS * Milli
       /\ 10 * thermalSystem.thermals[i].radius <= 12 * THERMAL_CORE_RADIUS * Milli
       /\ thermalSystem.thermals[i].lifetime >= 180 * Milli
       /\ thermalSystem.thermals[i].lifetime <= 480 * Milli
  /\ \A i \in SpawnedIndexes :
       /\ thermalSystem.thermals[i].age = 0
       /\ 10 * Abs(thermalSystem.thermals[i].center.x) <= 8 * ((WORLD_SIZE * Milli) \div 2)
       /\ 10 * Abs(thermalSystem.thermals[i].center.y) <= 8 * ((WORLD_SIZE * Milli) \div 2)

\* C20 witness: an update spawned thermals, one of them on the edge of the
\* 80% region, and the field holds thermals of the weakest and of the
\* shortest-lived kind
C20_Witness ==
  /\ Updated
  /\ \E i \in SpawnedIndexes :
       10 * Abs(thermalSystem.thermals[i].center.x) = 8 * ((WORLD_SIZE * Milli) \div 2)
  /\ \E i \in 1..Len(thermalSystem.thermals) :
       thermalSystem.thermals[i].strength = THERMAL_W_MIN * Micro
  /\ \E i \in 1..Len(thermalSystem.thermals) :
       thermalSystem.thermals[i].lifetime = 180 * Milli

----------------------------------------------------------------------------
(* Two thermal fields of one program: Math.random() is one generator, its  *)
(* state is not an argument of createThermalSystem or updateThermalSystem  *)

\* The state of Math.random() after a call that left these thermals: the id
\* is the draw before the last one of createThermal (the lifetime)
RandomAfter(rng, before, thermals) ==
  IF Len(thermals) > before THEN NextRandom(thermals[Len(thermals)].id) ELSE rng

\* Two fields made by two createThermalSystem() calls, as at session start
\* and at a reset: the second call finds the generator where the first left it
InitTwoFields ==
  /\ \E seed \in Seeds : thermalSystem = createThermalSystem(seed)
  /\ glider = createInitialState(Vec3(0, 500 * Milli, 0), 0)
  /\ hist = [calls |-> 0, startCount |-> THERMAL_COUNT]
  /\ last = [op |-> "createThermalSystem",
             twin |-> createThermalSystem(RandomAfter(0, 0, thermalSystem.thermals))]

\* The twin updated after the first field, with the generator as the first
\* update left it
UpdateTwin(deltaTime, rng) ==
  /\ last' = [op |-> "updateThermalSystem", deltaTime |-> deltaTime, before |-> thermalSystem,
              twin |-> updateThermalSystem(last.twin, deltaTime, rng)]
  /\ hist' = [hist EXCEPT !.calls = @ + 1]
  /\ UNCHANGED glider

\* Both fields advanced by the same deltaTime
UpdateBoth ==
  \E deltaTime \in DeltaTimes(thermalSystem) :
    /\ hist.calls <= MaxUpdates
    /\ thermalSystem' = updateThermalSystem(thermalSystem, deltaTime,
                                            RandomAfter(0, 0, last.twin.thermals))
    /\ UpdateTwin(deltaTime,
                  RandomAfter(RandomAfter(0, 0, last.twin.thermals),
                              Len(SelectSeq(thermalSystem.thermals,
                                            LAMBDA t : ~ThermalDies(t, deltaTime))),
                              thermalSystem.thermals'))

NextTwoFields == UpdateBoth
SpecTwoFields == InitTwoFields /\ [][NextTwoFields]_vars

\* C13: two thermal fields initialized alike and advanced by the same
\* sequence of dt values hold identical thermals (center, strength, radius,
\* lifetime, age) at every step.
C13_Reproducible ==
  /\ Len(thermalSystem.thermals) = Len(last.twin.thermals)
  /\ \A i \in 1..Len(thermalSystem.thermals) :
       /\ thermalSystem.thermals[i].center = last.twin.thermals[i].center
       /\ thermalSystem.thermals[i].strength = last.twin.thermals[i].strength
       /\ thermalSystem.thermals[i].radius = last.twin.thermals[i].radius
       /\ thermalSystem.thermals[i].lifetime = last.twin.thermals[i].lifetime
       /\ thermalSystem.thermals[i].age = last.twin.thermals[i].age

----------------------------------------------------------------------------
(* createThermal among thermals that crowd its candidates                  *)

\* The generator state before the draws of attempt k
RECURSIVE AttemptRng(_, _)
AttemptRng(rng, k) == IF k <= 1 THEN rng ELSE NextRandom(NextRandom(AttemptRng(rng, k - 1)))

\* The center drawn at attempt k by a createThermal call that starts at rng
Candidate(rng, k) ==
  [x |-> CenterCoord(NextRandom(AttemptRng(rng, k))),
   y |-> CenterCoord(NextRandom(NextRandom(AttemptRng(rng, k))))]

\* A thermal 100 m from a center
ThermalNear(center, id) ==
  [id |-> id,
   center |-> [x |-> center.x + 100 * Milli, y |-> center.y],
   strength |-> THERMAL_W_MIN * Micro,
   radius |-> THERMAL_CORE_RADIUS * Milli,
   age |-> 0,
   lifetime |-> 180 * Milli]

\* The candidates (by attempt) that the thermals of a population sit near: none,
\* the first three, all ten, and all ten with the last one crowded three times
CrowdPatterns ==
  {<< >>, <<1, 2, 3>>, <<1, 2, 3, 4, 5, 6, 7, 8, 9, 10>>,
   <<1, 2, 3, 4, 5, 6, 7, 8, 9, 10, 10, 10>>}

InitCreateThermal ==
  /\ \E seed \in Seeds, pattern \in CrowdPatterns :
       /\ thermalSystem =
            [createThermalSystem(0) EXCEPT
               !.thermals = [i \in 1..Len(pattern) |-> ThermalNear(Candidate(seed, pattern[i]), i)]]
       /\ last = [op |-> "none", rng |-> seed]
  /\ glider = createInitialState(Vec3(0, 500 * Milli, 0), 0)
  /\ hist = [calls |-> 0, startCount |-> THERMAL_COUNT]

\* thermals.push(createThermal(thermals)), one turn of a spawn loop
PushThermal ==
  /\ Len(thermalSystem.thermals) < THERMAL_COUNT
  /\ thermalSystem' =
       [thermalSystem EXCEPT
          !.thermals = Append(@, createThermal(thermalSystem.thermals, last.rng).thermal)]
  /\ last' = [op |-> "createThermal",
              existing |-> thermalSystem.thermals,
              from |-> last.rng,
              picked |-> PickCenter(thermalSystem.thermals, last.rng, 0),
              rng |-> createThermal(thermalSystem.thermals, last.rng).rng]
  /\ hist' = [hist EXCEPT !.calls = @ + 1]
  /\ UNCHANGED glider

NextCreateThermal == PushThermal
SpecCreateThermal == InitCreateThermal /\ [][NextCreateThermal]_vars

\* The number of existing centers closer to c than 2 x THERMAL_OUTER_RADIUS
CrowdCount(existingThermals, c) ==
  Cardinality({i \in 1..Len(existingThermals) :
                 distanceToLess(existingThermals[i].center, c, THERMAL_OUTER_RADIUS * 2 * Milli)})

\* The thermal that the last createThermal call returned
Created == thermalSystem.thermals[Len(thermalSystem.thermals)]

\* C19 as stated: the search ends after at most 10 attempts; when some
\* attempt is uncrowded the returned center is at least 2 x
\* THERMAL_OUTER_RADIUS from every existing center; when none is, the
\* returned center is the best candidate of the attempts, the one least
\* crowded by existing centers.
C19_BestCandidate ==
  last.op = "createThermal" =>
    /\ last.picked.attempts \in 1..10
    /\ (\E k \in 1..last.picked.attempts : ~Crowded(last.existing, Candidate(last.from, k)))
         => ~Crowded(last.existing, Created.center)
    /\ \A k \in 1..last.picked.attempts :
         CrowdCount(last.existing, Created.center)
           <= CrowdCount(last.existing, Candidate(last.from, k))

\* C19 amended: the search ends after at most 10 attempts and never fails;
\* the returned center is the candidate of the last attempt made: the first
\* uncrowded candidate when one of the attempts is uncrowded (it is then at
\* least 2 x THERMAL_OUTER_RADIUS from every existing center), and the 10th
\* candidate when all ten are crowded, however crowded it is compared with
\* the earlier ones.
C19_LastCandidate ==
  last.op = "createThermal" =>
    /\ last.picked.attempts \in 1..10
    /\ Created.center = Candidate(last.from, last.picked.attempts)
    /\ Created.age = 0
    /\ \A k \in 1..(last.picked.attempts - 1) : Crowded(last.existing, Candidate(last.from, k))
    /\ last.picked.attempts < 10 => ~Crowded(last.existing, Created.center)
    /\ (\E k \in 1..last.picked.attempts : ~Crowded(last.existing, Candidate(last.from, k)))
         => ~Crowded(last.existing, Created.center)

\* C19 witness: all ten attempts were crowded and the thermal was placed at
\* the tenth candidate, a crowded one
C19_Witness ==
  /\ last.op = "createThermal"
  /\ last.picked.attempts = 10
  /\ Crowded(last.existing, Created.center)
  /\ Created.center = Candidate(last.from, 10)

\* C19 witness of the other case: the fourth attempt was the first uncrowded
C19_FoundUncrowded ==
  /\ last.op = "createThermal"
  /\ last.picked.attempts = 4
  /\ ~Crowded(last.existing, Created.center)

----------------------------------------------------------------------------
(* Flight step: updatePhysics calls on a glider state                      *)

MaxTicks == 2

Calm == [horizontal |-> Vec3(0, 0, 0), vertical |-> 0]
\* The wind of createThermalSystem with a 2 m/s updraft
Lifting == [horizontal |-> Vec3(FMul(FSin(WIND_DIRECTION), WIND_SPEED * Micro), 0,
                                FMul(FCos(WIND_DIRECTION), WIND_SPEED * Micro)),
            vertical |-> 2 * Micro]

NoInput == [pitch |-> 0, roll |-> 0, yaw |-> 0]

\* What a frame hands to updatePhysics: controls, wind sample, frame time (ms)
FrameInputs ==
  {[controls |-> NoInput, windField |-> Calm, deltaTime |-> 0],
   [controls |-> NoInput, windField |-> Calm, deltaTime |-> -16],
   [controls |-> [pitch |-> 20000000, roll |-> One, yaw |-> -50000000],
    windField |-> Lifting, deltaTime |-> 50],
   [controls |-> [pitch |-> 20000000, roll |-> One, yaw |-> -50000000],
    windField |-> Lifting, deltaTime |-> 100],
   [controls |-> [pitch |-> -One, roll |-> 0, yaw |-> One], windField |-> Calm, deltaTime |-> 33],
   [controls |-> NoInput, windField |-> Lifting, deltaTime |-> 250]}

\* Orientations of unit norm: level, and yawed, pitched and rolled
Level == Quat(0, 0, 0, One)
Banked ==
  QNormalize(QMultiply(QMultiply(setFromAxisAngle(Vec3(0, One, 0), 30000000),
                                 setFromAxisAngle(Vec3(One, 0, 0), -10000000)),
                       setFromAxisAngle(Vec3(0, 0, One), 40000000)))

\* Velocities (um/s): sinking at 5 m/s, climbing at 2 m/s, trimmed at an angle
\* of attack of 4 degrees, nearly at rest, and deeply stalled
TestVelocities ==
  {Vec3(0, -5 * Micro, 30 * Micro),
   Vec3(0, 2 * Micro, 30 * Micro),
   Vec3(0, -FMul(30 * Micro, FSin(Deg(4, 1))), FMul(30 * Micro, FCos(Deg(4, 1)))),
   Vec3(0, 0, 300000),
   Vec3(3 * Micro, -15 * Micro, 20 * Micro)}

TestGliders(quaternions) ==
  {[position |-> Vec3(0, y, 0), velocity |-> v, quaternion |-> q, angularVelocity |-> w] :
     y \in {3 * Milli, 500 * Milli},
     v \in TestVelocities,
     q \in quaternions,
     w \in {Vec3(0, 0, 0), Vec3(10000000, -5000000, 20000000)}}

\* q scaled by k (units of 1e-8): an orientation whose norm has drifted
QScale(q, k) == Quat(FMul(q.x, k), FMul(q.y, k), FMul(q.z, k), FMul(q.w, k))

\* The flight step reads no thermal field: its wind sample is an argument
NoThermals == [thermals |-> << >>, wind |-> Lifting.horizontal, time |-> 0]

InitPhysicsWith(quaternions) ==
  /\ glider \in TestGliders(quaternions)
  /\ thermalSystem = NoThermals
  /\ hist = [calls |-> 0, startCount |-> THERMAL_COUNT]
  /\ last = [op |-> "none"]

InitPhysics == InitPhysicsWith({Level, Banked})

InitPhysicsAnyQuat ==
  InitPhysicsWith({Level, QScale(Level, 100010000), QScale(Banked, 90000000),
                   QScale(Banked, 110000000)})

UpdatePhysics ==
  \E in \in FrameInputs :
    /\ hist.calls < MaxTicks
    /\ glider' = updatePhysics(glider, in.controls, in.windField, in.deltaTime)
    /\ hist' = [hist EXCEPT !.calls = @ + 1]
    /\ last' = [op |-> "updatePhysics", controls |-> in.controls, windField |-> in.windField,
                deltaTime |-> in.deltaTime, before |-> glider]
    /\ UNCHANGED thermalSystem

NextPhysics == UpdatePhysics
SpecPhysics == InitPhysics /\ [][NextPhysics]_vars
SpecPhysicsAnyQuat == InitPhysicsAnyQuat /\ [][NextPhysics]_vars

----------------------------------------------------------------------------
(* Claims about the flight step                                            *)

Stepped == last.op = "updatePhysics"

\* |q| is 1 within 1e-6
UnitNorm(q) == Abs(QLength(q) - One) <= One \div Micro

\* Velocity and position of the last step after integration, before the ground check
Integrated == Integrate(last.before, last.windField, Min(last.deltaTime, 50))

\* C3: from a unit-norm orientation, the orientation has unit norm (within
\* 1e-6) after every updatePhysics step, whatever the controls and dt.
C3_UnitQuaternion == UnitNorm(glider.quaternion)

\* C3 witness: two steps with control input have turned the orientation
C3_Witness ==
  /\ Stepped
  /\ hist.calls = 2
  /\ last.controls.roll # 0
  /\ glider.quaternion # last.before.quaternion
  /\ UnitNorm(glider.quaternion)

\* C4 as stated: updatePhysics returns a unit-norm orientation for any
\* non-zero input quaternion and any angular velocity, also below the 1e-4
\* threshold.
C4_AlwaysRenormalized == Stepped => UnitNorm(glider.quaternion)

\* C4 amended: updatePhysics renormalizes the orientation on the ticks where
\* the updated angular velocity has a magnitude above 1e-4: the returned
\* quaternion then has unit norm for any non-zero input quaternion; at or
\* below the threshold the input quaternion is returned as it is, drift
\* included.
C4_RenormalizedAboveThreshold ==
  Stepped =>
    IF VLength(glider.angularVelocity) > One \div 10000
    THEN UnitNorm(glider.quaternion)
    ELSE glider.quaternion = last.before.quaternion

\* C4 witness: a drifted orientation came back with unit norm
C4_Witness ==
  /\ Stepped
  /\ ~UnitNorm(last.before.quaternion)
  /\ VLength(glider.angularVelocity) > One \div 10000
  /\ UnitNorm(glider.quaternion)

\* C5: after every updatePhysics step the altitude is at least 5 m.
C5_AltitudeFloor == Stepped => glider.position.y >= 5 * Milli

\* C5 witness: a step that ended below 5 m, still climbing, was put at 5 m
C5_Witness ==
  /\ Stepped
  /\ Integrated.position.y < 5 * Milli
  /\ Integrated.velocity.y > 0
  /\ glider.position.y = 5 * Milli

\* C6: when the integrated altitude is below 5 m and the integrated vertical
\* velocity is negative, the step returns altitude 5 m, vertical velocity 0
\* and 0.98 times the integrated x and z velocities; when the integrated
\* vertical velocity is not negative the velocity is returned as integrated;
\* a step from altitude 3 m with velocity.y = -5 m/s is of the first kind.
C6_GroundContact ==
  Stepped =>
    /\ (Integrated.position.y < 5 * Milli /\ Integrated.velocity.y < 0) =>
         /\ glider.position.y = 5 * Milli
         /\ glider.velocity.y = 0
         /\ glider.velocity.x = MulDiv(Integrated.velocity.x, 98, 100)
         /\ glider.velocity.z = MulDiv(Integrated.velocity.z, 98, 100)
    /\ Integrated.velocity.y >= 0 => glider.velocity = Integrated.velocity
    /\ (last.before.position.y = 3 * Milli /\ last.before.velocity.y = -5 * Micro) =>
         /\ glider.position.y = 5 * Milli
         /\ glider.velocity.y = 0
         /\ glider.velocity.z = MulDiv(Integrated.velocity.z, 98, 100)

\* C6 witness: the step from altitude 3 m with velocity.y = -5 m/s
C6_Witness ==
  /\ Stepped
  /\ last.before.position.y = 3 * Milli
  /\ last.before.velocity.y = -5 * Micro
  /\ last.deltaTime > 0
  /\ Integrated.velocity.z # 0
  /\ glider.velocity.y = 0
  /\ glider.position.y = 5 * Milli

\* C7: a call with deltaTime > 0.05 s returns exactly the state the call
\* with deltaTime = 0.05 s returns.
C7_TimestepClamp ==
  (Stepped /\ last.deltaTime > 50) =>
    glider = updatePhysics(last.before, last.controls, last.windField, 50)

\* C7 witness: a step with deltaTime = 0.25 s moved the glider
C7_Witness ==
  /\ Stepped
  /\ last.deltaTime = 250
  /\ glider.position # last.before.position

\* The angle of attack of the state given to the last step, in its wind
PreStepAlpha ==
  calculateAngleOfAttack(VSub(last.before.velocity, FullWind(last.windField)),
                         last.before.quaternion)

\* The angle of attack of the velocity after the integration of the last
\* step, in its wind, with the orientation given to the step
PostStepAlpha ==
  calculateAngleOfAttack(VSub(Integrated.velocity, FullWind(last.windField)),
                         last.before.quaternion)

\* The angular velocity of the last step after controls, damping and
\* weathervane, before the pitch stability and stall corrections
BeforeCorrections ==
  applyWeathervane(applyDamping(applyControlInputs(last.before.angularVelocity, last.controls,
                                                   Min(last.deltaTime, 50)),
                                Min(last.deltaTime, 50)),
                   Integrated.velocity, last.before.quaternion, Min(last.deltaTime, 50))

\* The pitch rate of the last step when its corrections see the angle alpha
CorrectedWith(alpha) ==
  StallCorrection(PitchStability(BeforeCorrections.x, alpha, last.controls,
                                 Min(last.deltaTime, 50)),
                  alpha, Min(last.deltaTime, 50))

\* C17 as stated: the pitch-stability and stall corrections use the angle of
\* attack recomputed from the velocity after the integration minus the wind,
\* with the orientation before the step (stated on the steps of a positive
\* frame time, the ones a frame makes).
C17_PostIntegrationAlpha ==
  (Stepped /\ last.deltaTime > 0) => glider.angularVelocity.x = CorrectedWith(PostStepAlpha)

\* C17 amended: the pitch-stability and stall corrections use the angle of
\* attack of the velocity given to the step (before the integration) minus
\* the wind, with the orientation before the step: the angle the aerodynamic
\* forces of the same step use.
C17_PreStepAlpha ==
  Stepped => glider.angularVelocity.x = CorrectedWith(PreStepAlpha)

\* C17 witness: a step whose integration changed the angle of attack enough
\* for the two angles to give different pitch rates
C17_Witness ==
  /\ Stepped
  /\ last.deltaTime > 0
  /\ PreStepAlpha # PostStepAlpha
  /\ CorrectedWith(PreStepAlpha) # CorrectedWith(PostStepAlpha)
  /\ glider.angularVelocity.x = CorrectedWith(PreStepAlpha)

----------------------------------------------------------------------------
(* calculateCL on a range of angles of attack                              *)

\* Half the number of angles, one unit of 1e-8 rad apart, tried on each side
\* of a stall boundary
NearSteps == 20
\* Half the number of angles, 5 degrees apart, tried over the whole circle
CoarseSteps == 36

Alphas ==
  {STALL_ALPHA_POS + k : k \in -NearSteps..NearSteps}
    \cup {STALL_ALPHA_NEG + k : k \in -NearSteps..NearSteps}
    \cup {Deg(5 * k, 1) : k \in -CoarseSteps..CoarseSteps}

InitCL ==
  /\ glider = createInitialState(Vec3(0, 500 * Milli, 0), 0)
  /\ thermalSystem = NoThermals
  /\ hist = [calls |-> 0, startCount |-> THERMAL_COUNT]
  /\ last = [op |-> "none"]

CalculateCL ==
  \E alpha \in Alphas :
    /\ last' = [op |-> "calculateCL", alpha |-> alpha, cl |-> calculateCL(alpha)]
    /\ hist' = [hist EXCEPT !.calls = 1]
    /\ UNCHANGED <<glider, thermalSystem>>

NextCL == CalculateCL
SpecCL == InitCL /\ [][NextCL]_vars

\* C8: calculateCL is continuous across both stall boundaries: the value one
\* unit (1e-8 rad) beyond the boundary differs from the value at the boundary,
\* the last of the linear region, by no more than 1e-6, at +12 degrees and at
\* -10 degrees.
C8_ContinuousAtStall ==
  last.op = "calculateCL" =>
    /\ last.alpha = STALL_ALPHA_POS + 1 =>
         Abs(last.cl - calculateCL(STALL_ALPHA_POS)) <= One \div Micro
    /\ last.alpha = STALL_ALPHA_NEG - 1 =>
         Abs(last.cl - calculateCL(STALL_ALPHA_NEG)) <= One \div Micro

----------------------------------------------------------------------------
(* getTelemetry on gliders at given angles of attack                       *)

\* Angles of attack: the four of the isStalling boundary test, and the angles
\* around each threshold one unit apart
TelemetryAlphas ==
  {Deg(120001, 10000), Deg(1199, 100), -Deg(100001, 10000), -Deg(999, 100)}
    \cup {STALL_ALPHA_POS + k : k \in -NearSteps..NearSteps}
    \cup {STALL_ALPHA_NEG + k : k \in -NearSteps..NearSteps}

\* A glider at 500 m flying at 30 m/s through the air with the orientation q
\* and the angle of attack alpha in the wind w
GliderAt(alpha, q, w) ==
  [position |-> Vec3(0, 500 * Milli, 0),
   velocity |-> VAdd(applyQuaternion(Vec3(0, -FMul(30 * Micro, FSin(alpha)),
                                          FMul(30 * Micro, FCos(alpha))), q),
                     FullWind(w)),
   quaternion |-> q,
   angularVelocity |-> Vec3(0, 0, 0)]

InitTelemetry ==
  /\ \E alpha \in TelemetryAlphas, q \in {Level, Banked} : glider = GliderAt(alpha, q, Calm)
  /\ thermalSystem = NoThermals
  /\ hist = [calls |-> 0, startCount |-> THERMAL_COUNT]
  /\ last = [op |-> "none"]

GetTelemetry ==
  /\ last.op = "none"
  /\ last' = [op |-> "getTelemetry", windField |-> Calm, telemetry |-> getTelemetry(glider, Calm)]
  /\ hist' = [hist EXCEPT !.calls = 1]
  /\ UNCHANGED <<glider, thermalSystem>>

NextTelemetry == GetTelemetry
SpecTelemetry == InitTelemetry /\ [][NextTelemetry]_vars

\* The angle of attack of the glider in the wind of the last call (rad, 1e-8)
AlphaSeen ==
  calculateAngleOfAttack(VSub(glider.velocity, FullWind(last.windField)), glider.quaternion)

\* C9: isStalling is true exactly when the angle of attack is strictly beyond
\* a stall threshold: alpha > +12 degrees or alpha < -10 degrees; in the
\* reported degrees (1e-6 degree, two units of rounding): above 12 and below
\* -10 it is true (12.0001, -10.0001), between them false (11.99, -9.99).
C9_StallFlag ==
  last.op = "getTelemetry" =>
    /\ last.telemetry.isStalling <=>
         (AlphaSeen > STALL_ALPHA_POS \/ AlphaSeen < STALL_ALPHA_NEG)
    /\ last.telemetry.angleOfAttack > 12 * Micro + 2 => last.telemetry.isStalling
    /\ last.telemetry.angleOfAttack < -10 * Micro - 2 => last.telemetry.isStalling
    /\ (/\ last.telemetry.angleOfAttack < 12 * Micro - 2
        /\ last.telemetry.angleOfAttack > -10 * Micro + 2) => ~last.telemetry.isStalling

\* C9 witness: the telemetry of a glider whose angle of attack is the
\* threshold of +12 degrees itself, reported as not stalling
C9_Witness ==
  /\ last.op = "getTelemetry"
  /\ AlphaSeen = STALL_ALPHA_POS
  /\ ~last.telemetry.isStalling

\* The four angles of the boundary test, as reported (within 1e-5 degree)
C9_Reported(microDegrees, stalling) ==
  /\ last.op = "getTelemetry"
  /\ Abs(last.telemetry.angleOfAttack - microDegrees) <= 10
  /\ last.telemetry.isStalling = stalling

C9_Seen12_0001 == C9_Reported(12000100, TRUE)
C9_Seen11_99 == C9_Reported(11990000, FALSE)
C9_SeenMinus10_0001 == C9_Reported(-10000100, TRUE)
C9_SeenMinus9_99 == C9_Reported(-9990000, FALSE)

----------------------------------------------------------------------------
(* Flight step on gliders at given angles of attack, with pilot pitch input *)

\* Angles of attack: trimmed, on and around the edges of the +/-2 degree band
\* of the pitch stability, on and beyond the stall thresholds
PitchAlphas ==
  {0, Deg(2, 1) - 1000, Deg(4, 1), Deg(6, 1), Deg(6, 1) + 1000, Deg(9, 1),
   STALL_ALPHA_POS, STALL_ALPHA_POS + 1000, Deg(15, 1), Deg(25, 1),
   STALL_ALPHA_NEG, STALL_ALPHA_NEG - 1000, -Deg(14, 1), -Deg(30, 1)}

\* Frames in calm air: pitch input below, at and above 0.3, both ways
PitchInputs ==
  {[controls |-> [pitch |-> p, roll |-> 0, yaw |-> 0], windField |-> Calm, deltaTime |-> d] :
     p \in {0, 29999999, -29999999, 30000000, -30000000, One, -One},
     d \in {0, 16, 50}}

InitPitch ==
  /\ \E alpha \in PitchAlphas, q \in {Level, Banked} : glider = GliderAt(alpha, q, Calm)
  /\ thermalSystem = NoThermals
  /\ hist = [calls |-> 0, startCount |-> THERMAL_COUNT]
  /\ last = [op |-> "none"]

\* One updatePhysics call on the glider
PitchStep ==
  \E in \in PitchInputs :
    /\ hist.calls < 1
    /\ glider' = updatePhysics(glider, in.controls, in.windField, in.deltaTime)
    /\ hist' = [hist EXCEPT !.calls = @ + 1]
    /\ last' = [op |-> "updatePhysics", controls |-> in.controls, windField |-> in.windField,
                deltaTime |-> in.deltaTime, before |-> glider]
    /\ UNCHANGED thermalSystem

NextPitch == PitchStep
SpecPitch == InitPitch /\ [][NextPitch]_vars

\* The pitch-stability nudge of the last step by the conditions C18 gives:
\* (alpha - 4 degrees) * 0.5 * dt * 3 when |alpha - 4 degrees| > 2 degrees and
\* |controls.pitch| < 0.3, nothing otherwise
NudgeByClaim(alpha) ==
  IF Abs(alpha - Deg(4, 1)) > Deg(2, 1) /\ Abs(last.controls.pitch) < 30000000
  THEN MulDiv(FMul(alpha - Deg(4, 1), One \div 2) * 3, Min(last.deltaTime, 50), Milli)
  ELSE 0

\* What the corrections of the last step added to the pitch rate, the nudge
\* taken off: the stall correction
StallPart ==
  glider.angularVelocity.x - BeforeCorrections.x - NudgeByClaim(PreStepAlpha)

\* C18: the pitch-stability nudge is applied only when |alpha - 4 degrees| >
\* 2 degrees and |controls.pitch| < 0.3; the stall correction is applied
\* whenever alpha is beyond a stall threshold, whatever the pitch input: a
\* nose-down (positive x) rate when alpha > +12 degrees, a nose-up (negative
\* x) rate when alpha < -10 degrees, of magnitude at most 1.5 * 5 * dt, and
\* nothing between the thresholds.
C18_PitchCorrections ==
  Stepped =>
    /\ PreStepAlpha > STALL_ALPHA_POS =>
         /\ StallPart >= 0
         /\ StallPart <= MulDiv(150000000 * 5, Min(last.deltaTime, 50), Milli)
         /\ (last.deltaTime > 0 /\ PreStepAlpha >= STALL_ALPHA_POS + 1000) => StallPart > 0
    /\ PreStepAlpha < STALL_ALPHA_NEG =>
         /\ StallPart <= 0
         /\ StallPart >= -MulDiv(150000000 * 5, Min(last.deltaTime, 50), Milli)
         /\ (last.deltaTime > 0 /\ PreStepAlpha <= STALL_ALPHA_NEG - 1000) => StallPart < 0
    /\ (PreStepAlpha <= STALL_ALPHA_POS /\ PreStepAlpha >= STALL_ALPHA_NEG) => StallPart = 0

\* C18 witness: a stalled glider under full pilot pitch input got the whole
\* nose-down rate of 1.5 * 5 * dt and no pitch-stability nudge
C18_Witness ==
  /\ Stepped
  /\ Abs(last.controls.pitch) = One
  /\ last.deltaTime = 50
  /\ PreStepAlpha > STALL_ALPHA_POS + Deg(10, 1)
  /\ NudgeByClaim(PreStepAlpha) = 0
  /\ glider.angularVelocity.x - BeforeCorrections.x = MulDiv(150000000 * 5, 50, Milli)

\* C18, the other cases reached: the nose-up correction under pilot input
C18_NoseUpUnderInput ==
  /\ Stepped
  /\ Abs(last.controls.pitch) >= 30000000
  /\ last.deltaTime > 0
  /\ PreStepAlpha < STALL_ALPHA_NEG
  /\ glider.angularVelocity.x < BeforeCorrections.x

\* C18, the other cases reached: the nudge alone, and its suppression at a
\* pitch input of 0.3
C18_NudgeAlone ==
  /\ Stepped
  /\ last.deltaTime > 0
  /\ PreStepAlpha > Deg(6, 1)
  /\ PreStepAlpha <= STALL_ALPHA_POS
  /\ IF Abs(last.controls.pitch) < 30000000
     THEN FALSE
     ELSE glider.angularVelocity.x = BeforeCorrections.x

----------------------------------------------------------------------------
(* Glides: updatePhysics called frame after frame with no control input in *)
(* calm air, as GameLoop does with the stick centred.  The glides start     *)
(* from createInitialState and from gliders at 20 and 45 m/s (the stall     *)
(* speed sqrt(2 m g / (rho S CL_MAX)) is 18.7 m/s), level and banked, at    *)
(* angles of attack from -14 to +25 degrees.                                *)

\* The flight time each glide is followed for (ms)
SettleTime == 10000

\* A glider as GliderAt gives it, flying at speed (m/s) through the air
GliderFlying(alpha, q, speed) ==
  [GliderAt(alpha, q, Calm) EXCEPT
     !.velocity = applyQuaternion(Vec3(0, -FMul(speed * Micro, FSin(alpha)),
                                       FMul(speed * Micro, FCos(alpha))), q)]

GlideStarts ==
  {createInitialState(Vec3(0, 500 * Milli, 0), 0)}
    \cup {GliderFlying(alpha, q, speed) :
            alpha \in {0, Deg(25, 1), -Deg(14, 1)}, q \in {Level, Banked}, speed \in {20, 45}}

\* The angle of attack of a glider in calm air is within 2 degrees of 4 degrees
NearFour(state) ==
  Abs(calculateAngleOfAttack(state.velocity, state.quaternion) - Deg(4, 1)) <= Deg(2, 1)

InitGlide ==
  /\ glider \in GlideStarts
  /\ thermalSystem = NoThermals
  /\ hist = [calls |-> 0, startCount |-> THERMAL_COUNT]
  /\ \E d \in {16, 50} :
       last = [op |-> "none", deltaTime |-> d, before |-> glider, settled |-> NearFour(glider)]

\* The frame's result takes the place of the glider
GlideTo(newState) ==
  /\ glider' = newState
  /\ last' = [op |-> "updatePhysics", deltaTime |-> last.deltaTime, before |-> glider,
              settled |-> last.settled \/ NearFour(newState)]

\* One frame of the glide
GlideStep ==
  /\ hist.calls * last.deltaTime < SettleTime
  /\ GlideTo(updatePhysics(glider, NoInput, Calm, last.deltaTime))
  /\ hist' = [hist EXCEPT !.calls = @ + 1]
  /\ UNCHANGED thermalSystem

NextGlide == GlideStep
SpecGlide == InitGlide /\ [][NextGlide]_vars

----------------------------------------------------------------------------
(* updatePhysics on a state with non-finite components                     *)
(* A non-finite component is a triple <<field, component, value>>; the set *)
(* of them that the glider holds is kept in last.carried, and the number   *)
(* in glider at the place of such a component stands for nothing.  The     *)
(* arithmetic follows IEEE 754 as JavaScript has it: a sum or product with *)
(* NaN is NaN, every comparison with NaN is false, x + Infinity is         *)
(* Infinity for finite x.  FlightPhysics.ts has no throw and no assert.    *)

NonFiniteInputs ==
  {{<<"position", "x", "NaN">>},
   {<<"position", "y", "NaN">>},
   {<<"position", "y", "+Infinity">>},
   {<<"position", "y", "-Infinity">>},
   {<<"position", "z", "-Infinity">>, <<"position", "y", "-Infinity">>},
   {<<"velocity", "x", "NaN">>},
   {<<"velocity", "y", "NaN">>, <<"position", "z", "+Infinity">>},
   {<<"quaternion", "w", "NaN">>},
   {<<"quaternion", "x", "NaN">>, <<"quaternion", "y", "NaN">>}}

NonFiniteOf(nonFinite, field) == {t \in nonFinite : t[1] = field}
AllNaN(field) == {<<field, c, "NaN">> : c \in {"x", "y", "z"}}

\* state.position.y as `newPosition.y < 5` (line 331) sees it: the test is
\* true of -Infinity and false of NaN and +Infinity, whatever the step added
ComparedAltitude(state, nonFinite) ==
  IF <<"position", "y", "-Infinity">> \in nonFinite
  THEN [state EXCEPT !.position.y = -1000000 * Milli]
  ELSE IF \E t \in nonFinite : t[1] = "position" /\ t[2] = "y"
  THEN [state EXCEPT !.position.y = 1000000 * Milli]
  ELSE state

\* calculateAeroForces returns NaN forces: `airspeed < 0.5` (line 124) is
\* false of a NaN airspeed, and an airspeed of 0.5 m/s or more goes on to the
\* angle of attack, which is NaN with a NaN orientation
ForcesNaN(state, nonFinite, windField) ==
  \/ NonFiniteOf(nonFinite, "velocity") # {}
  \/ /\ NonFiniteOf(nonFinite, "quaternion") # {}
     /\ VLength(VSub(state.velocity, FullWind(windField))) >= Micro \div 2

\* With NaN forces: newVelocity and newPosition are NaN in every component;
\* the weathervane makes angularVelocity.y NaN; alpha is NaN, so neither
\* pitch correction applies; `newAngularVel.length() > 0.0001` (line 316) is
\* false, so the orientation is the clone of the one given
CarriedThroughForces(nonFinite) ==
  AllNaN("position") \cup AllNaN("velocity") \cup {<<"angularVelocity", "y", "NaN">>}
    \cup NonFiniteOf(nonFinite, "quaternion")

\* With finite forces only the position is non-finite: each component stays
\* as it is under the addition of line 272, and y = -Infinity is set to 5
CarriedByPosition(nonFinite) ==
  NonFiniteOf(nonFinite, "position") \ {<<"position", "y", "-Infinity">>}

\* The finite components of the state returned with NaN forces
AngularOnly(state, controls, dt) ==
  [state EXCEPT !.angularVelocity = applyDamping(applyControlInputs(@, controls, dt), dt)]

InitNonFinite ==
  /\ glider \in GlideStarts
  /\ thermalSystem = NoThermals
  /\ hist = [calls |-> 0, startCount |-> THERMAL_COUNT]
  /\ \E nonFinite \in NonFiniteInputs : last = [op |-> "none", carried |-> nonFinite]

\* updatePhysics returns newState
ReturnNonFinite(newState, carried) ==
  /\ glider' = newState
  /\ last' = [op |-> "updatePhysics", outcome |-> "returned", given |-> last.carried,
              carried |-> carried]

\* One updatePhysics call on the glider
UpdateNonFinite ==
  \E in \in FrameInputs :
    /\ hist.calls < MaxTicks
    /\ NonFiniteOf(last.carried, "quaternion") # {}
         => ForcesNaN(glider, last.carried, in.windField)
    /\ IF ForcesNaN(glider, last.carried, in.windField)
       THEN ReturnNonFinite(AngularOnly(glider, in.controls, ClampDt(in.deltaTime)),
                            CarriedThroughForces(last.carried))
       ELSE ReturnNonFinite(updatePhysics(ComparedAltitude(glider, last.carried), in.controls,
                                          in.windField, in.deltaTime),
                            CarriedByPosition(last.carried))
    /\ hist' = [hist EXCEPT !.calls = @ + 1]
    /\ UNCHANGED thermalSystem

NextNonFinite == UpdateNonFinite
SpecNonFinite == InitNonFinite /\ [][NextNonFinite]_vars

\* C11: updatePhysics rejects a non-finite input state: given a position,
\* velocity or orientation with a NaN or an infinity in it, the call fails
\* instead of returning a state that carries a non-finite value forward.
C11_RejectsNonFinite ==
  (last.op = "updatePhysics" /\ last.given # {}) =>
    (last.outcome # "returned" \/ last.carried = {})

\* C11, what is reached: a NaN given in one component of the velocity comes
\* back in all of the velocity and the position, tick after tick
C11_NaNSpreads ==
  /\ last.op = "updatePhysics"
  /\ hist.calls = MaxTicks
  /\ last.outcome = "returned"
  /\ AllNaN("position") \cup AllNaN("velocity") \subseteq last.carried

\* C11, what is reached: an altitude of -Infinity comes back as 5 m
C11_GroundTakesInfinity ==
  /\ last.op = "updatePhysics"
  /\ last.given = {<<"position", "y", "-Infinity">>}
  /\ last.carried = {}
  /\ glider.position.y = 5 * Milli

----------------------------------------------------------------------------
(* FlightSimGame.tsx: the frame callbacks                                  *)
(* GameLoop's useFrame callback is followed statement by statement: last.pc *)
(* is the statement it is at, "idle" between two runs.  The callbacks of    *)
(* GliderRenderer, GliderCameraController and TerrainRenderer and the event *)
(* handlers are the other code that touches gliderStateRef.  All of them    *)
(* run on the one JavaScript thread, none awaits, and react-three-fiber     *)
(* calls the useFrame subscribers one after the other: a callback starts    *)
(* only when no other is running.                                           *)
(* last.origin names, for each field of gliderStateRef.current, the frame   *)
(* whose updatePhysics result it was copied from (0: createInitialState).   *)

MaxFrames == 2

\* The controls the joystick hands to handleControlUpdate
StickInputs == {NoInput, [pitch |-> 20000000, roll |-> One, yaw |-> -50000000]}

\* Frame times (ms)
FrameDeltas == {50, 300}

\* Faulty variant of the scheduling: a callback may start while GameLoop's
\* callback is between two statements
CallbackMayRunAnytime(pc) == TRUE

\* A callback or handler may start: no callback is running
CallbackMayRun(pc) == pc = "idle"

FreshOrigin == [position |-> 0, velocity |-> 0, quaternion |-> 0, angularVelocity |-> 0]

InitGameLoop ==
  /\ \E seed \in Seeds : thermalSystem = createThermalSystem(seed)
  /\ glider = createInitialState(Vec3(0, 500 * Milli, 0), 0)
  /\ hist = [calls |-> 0, startCount |-> THERMAL_COUNT]
  /\ last = [op |-> "none", pc |-> "idle", delta |-> 0, controls |-> NoInput,
             windField |-> Calm, newState |-> glider, origin |-> FreshOrigin,
             seen |-> FreshOrigin, lastThermalUpdate |-> 0, telemetryUpdate |-> 0,
             telemetry |-> getTelemetry(glider, Calm)]

\* Lines 30-33 with the wind sample taken
FrameWith(delta, windField) ==
  last' = [last EXCEPT !.op = "GameLoop", !.pc = "position", !.delta = delta,
                       !.windField = windField,
                       !.newState = updatePhysics(glider, last.controls, windField, delta)]

\* GameLoop's callback starts: getWindFieldAt, updatePhysics
FrameStart ==
  \E delta \in FrameDeltas :
    /\ CallbackMayRun(last.pc)
    /\ hist.calls < MaxFrames
    /\ FrameWith(delta, getWindFieldAt(glider.position, thermalSystem))
    /\ hist' = [hist EXCEPT !.calls = @ + 1]
    /\ UNCHANGED <<glider, thermalSystem>>

\* gliderStateRef.current.position.copy(newState.position)
CopyPosition ==
  /\ last.pc = "position"
  /\ glider' = [glider EXCEPT !.position = last.newState.position]
  /\ last' = [last EXCEPT !.pc = "velocity", !.origin.position = hist.calls]
  /\ UNCHANGED <<thermalSystem, hist>>

CopyVelocity ==
  /\ last.pc = "velocity"
  /\ glider' = [glider EXCEPT !.velocity = last.newState.velocity]
  /\ last' = [last EXCEPT !.pc = "quaternion", !.origin.velocity = hist.calls]
  /\ UNCHANGED <<thermalSystem, hist>>

CopyQuaternion ==
  /\ last.pc = "quaternion"
  /\ glider' = [glider EXCEPT !.quaternion = last.newState.quaternion]
  /\ last' = [last EXCEPT !.pc = "angularVelocity", !.origin.quaternion = hist.calls]
  /\ UNCHANGED <<thermalSystem, hist>>

CopyAngularVelocity ==
  /\ last.pc = "angularVelocity"
  /\ glider' = [glider EXCEPT !.angularVelocity = last.newState.angularVelocity]
  /\ last' = [last EXCEPT !.pc = "thermals", !.origin.angularVelocity = hist.calls]
  /\ UNCHANGED <<thermalSystem, hist>>

\* Lines 42-46 with lastThermalUpdateRef.current already advanced
ThermalsAfter(elapsed, rng) ==
  IF elapsed > 500
  THEN /\ thermalSystem' = updateThermalSystem(thermalSystem, elapsed, rng)
       /\ last' = [last EXCEPT !.pc = "telemetry", !.lastThermalUpdate = 0]
  ELSE /\ thermalSystem' = thermalSystem
       /\ last' = [last EXCEPT !.pc = "telemetry", !.lastThermalUpdate = elapsed]

\* Update thermals periodically
UpdateThermalsPeriodically ==
  \E rng \in Seeds :
    /\ last.pc = "thermals"
    /\ ThermalsAfter(last.lastThermalUpdate + last.delta, rng)
    /\ UNCHANGED <<glider, hist>>

\* Lines 49-54 with telemetryUpdateRef.current already advanced: the
\* callback reads gliderStateRef.current for getTelemetry, and ends
TelemetryAfter(elapsed) ==
  IF elapsed > 100
  THEN last' = [last EXCEPT !.op = "getTelemetry", !.pc = "idle", !.telemetryUpdate = 0,
                            !.seen = last.origin,
                            !.telemetry = getTelemetry(glider, last.windField)]
  ELSE last' = [last EXCEPT !.pc = "idle", !.telemetryUpdate = elapsed]

UpdateTelemetry ==
  /\ last.pc = "telemetry"
  /\ TelemetryAfter(last.telemetryUpdate + last.delta)
  /\ UNCHANGED <<glider, thermalSystem, hist>>

\* The useFrame callback of a component that reads gliderStateRef.current
ReaderFrame(component) ==
  /\ CallbackMayRun(last.pc)
  /\ last' = [last EXCEPT !.op = component, !.seen = last.origin]
  /\ UNCHANGED <<glider, thermalSystem, hist>>

GliderRendererFrame == ReaderFrame("GliderRenderer")
GliderCameraControllerFrame == ReaderFrame("GliderCameraController")
TerrainRendererFrame == ReaderFrame("TerrainRenderer")

\* handleControlUpdate: controlsRef.current = input
HandleControlUpdate ==
  \E input \in StickInputs :
    /\ CallbackMayRun(last.pc)
    /\ input # last.controls
    /\ last' = [last EXCEPT !.op = "handleControlUpdate", !.controls = input]
    /\ UNCHANGED <<glider, thermalSystem, hist>>

\* handleReset between two frames
ResetBetweenFrames ==
  \E seed \in Seeds :
    /\ CallbackMayRun(last.pc)
    /\ hist.calls > 0
    /\ glider' = createInitialState(Vec3(0, 500 * Milli, 0), 0)
    /\ thermalSystem' = createThermalSystem(seed)
    /\ last' = [last EXCEPT !.op = "handleReset", !.origin = FreshOrigin]
    /\ UNCHANGED hist

NextGameLoop ==
  \/ FrameStart
  \/ CopyPosition
  \/ CopyVelocity
  \/ CopyQuaternion
  \/ CopyAngularVelocity
  \/ UpdateThermalsPeriodically
  \/ UpdateTelemetry
  \/ GliderRendererFrame
  \/ GliderCameraControllerFrame
  \/ TerrainRendererFrame
  \/ HandleControlUpdate
  \/ ResetBetweenFrames

SpecGameLoop == InitGameLoop /\ [][NextGameLoop]_vars

\* The four fields seen come from one updatePhysics result (or all from
\* createInitialState)
OneOrigin(origin) ==
  /\ origin.position = origin.velocity
  /\ origin.velocity = origin.quaternion
  /\ origin.quaternion = origin.angularVelocity

\* C12: a tick is atomic for readers: no renderer, camera or telemetry
\* callback observes a GliderState in which only some of the four fields
\* come from the latest updatePhysics result, although the game loop copies
\* them one at a time.
C12_AtomicForReaders == OneOrigin(last.seen)

\* C12 witness: the camera callback ran after a frame whose four copies
\* changed position and orientation, and saw all four fields of that frame
C12_Witness ==
  /\ last.op = "GliderCameraController"
  /\ last.pc = "idle"
  /\ last.seen.position = hist.calls
  /\ last.seen.angularVelocity = hist.calls
  /\ hist.calls = MaxFrames
  /\ glider = last.newState
  /\ glider.quaternion # Level

\* C12, what is reached: the game loop is between two of its copies, the
\* shared state holding fields of two frames
C12_MidCopy ==
  /\ last.pc = "quaternion"
  /\ ~OneOrigin(last.origin)
  /\ glider.position = last.newState.position
  /\ glider.quaternion # last.newState.quaternion

----------------------------------------------------------------------------
(* The objects the operations write                                        *)
(* The operations of the core work on three.js objects: clone() and new    *)
(* make an object, the other Vector3 and Quaternion methods used here (add, *)
(* sub, multiplyScalar, divideScalar, normalize, negate, cross,             *)
(* applyQuaternion, multiply, setFromAxisAngle, copy), a component          *)
(* assignment and Array.push write their receiver and nothing else.  Each   *)
(* operation is followed as the sequence of these steps its source makes,   *)
(* its calls inlined, an `if` taken either way.  last.env binds the names   *)
(* of the source to objects, last.written holds the objects written so far. *)

\* The steps
Clone(d, s) == [k |-> "clone", d |-> d, s |-> s, n |-> 0]
New(d) == [k |-> "new", d |-> d, s |-> d, n |-> 0]
Write(r) == [k |-> "write", d |-> r, s |-> r, n |-> 0]
Alias(d, s) == [k |-> "alias", d |-> d, s |-> s, n |-> 0]
\* if (...) { block }
IfThen(block) == <<[k |-> "if", d |-> "", s |-> "", n |-> Len(block)]>> \o block
\* if (...) { a } else { b }
IfElse(a, b) ==
  <<[k |-> "if", d |-> "", s |-> "", n |-> Len(a) + 1]>> \o a
    \o <<[k |-> "jump", d |-> "", s |-> "", n |-> Len(b)]>> \o b

\* getForwardVector, getUpVector, getRightVector: a new Vector3, applyQuaternion
VectorCode(v) == <<New(v), Write(v)>>

\* calculateAngleOfAttack(velocity, quaternion)
AngleOfAttackCode(velocity) ==
  VectorCode("forward") \o VectorCode("up")
    \o IfThen(<<Clone("velocityNorm", velocity), Write("velocityNorm")>>)

\* calculateAeroForces(state.velocity, state.quaternion, windField)
AeroForcesCode ==
  <<Clone("windVector", "windField.horizontal"), Write("windVector"),
    Clone("airVelocity", "state.velocity"), Write("airVelocity")>>
    \o IfElse(<<New("lift"), New("drag"), New("sideForce")>>,
              AngleOfAttackCode("airVelocity")
                \o <<Clone("airVelocityNorm", "airVelocity"), Write("airVelocityNorm"),
                     Clone("liftDir", "airVelocityNorm")>>
                \o VectorCode("right")
                \o <<Write("liftDir"), Write("liftDir"),
                     Clone("dragDir", "airVelocityNorm"), Write("dragDir")>>
                \o VectorCode("right")
                \o <<Clone("sideForceDir", "right"), Write("sideForceDir"),
                     Write("liftDir"), Write("dragDir"), Write("sideForceDir"),
                     Alias("lift", "liftDir"), Alias("drag", "dragDir"),
                     Alias("sideForce", "sideForceDir")>>)

\* applyControlInputs(state.angularVelocity, controls, dt)
ControlCode ==
  <<Clone("newAngularVel", "state.angularVelocity"),
    Write("newAngularVel"), Write("newAngularVel"), Write("newAngularVel")>>

\* applyDamping(newAngularVel, dt)
DampCode ==
  <<Clone("damped", "newAngularVel"), Write("damped"), Write("damped"), Write("damped"),
    Alias("newAngularVel", "damped")>>

\* applyWeathervane(newAngularVel, newVelocity, state.quaternion, dt): the
\* two early returns hand back the argument
WeathervaneCode ==
  IfThen(<<Clone("velocityNorm", "newVelocity"), Write("velocityNorm")>>
           \o VectorCode("right")
           \o IfThen(<<Clone("blended", "newAngularVel"), Write("blended"),
                       Alias("newAngularVel", "blended")>>))

\* The orientation update of updatePhysics
OrientationCode ==
  <<New("localAngular"),
    New("axis"), New("pitchQ"), Write("pitchQ"),
    New("axis"), New("yawQ"), Write("yawQ"),
    New("axis"), New("rollQ"), Write("rollQ"),
    Write("newQuaternion"), Write("newQuaternion"), Write("newQuaternion"),
    Write("newQuaternion")>>

updatePhysicsCode ==
  <<New("gravity")>> \o AeroForcesCode
    \o <<New("totalForce"), Write("totalForce"), Write("totalForce"), Write("totalForce"),
         Write("totalForce"),
         Alias("acceleration", "totalForce"), Write("acceleration"),
         Clone("newVelocity", "state.velocity"), Write("acceleration"), Write("newVelocity"),
         Clone("newPosition", "state.position"), Clone("step", "newVelocity"), Write("step"),
         Write("newPosition")>>
    \o ControlCode \o DampCode \o WeathervaneCode
    \o <<Clone("fullWindVector", "windField.horizontal"), Write("fullWindVector"),
         Clone("airVelocity", "state.velocity"), Write("airVelocity")>>
    \o AngleOfAttackCode("airVelocity")
    \o IfThen(<<Write("newAngularVel")>>)
    \o IfElse(<<Write("newAngularVel")>>, IfThen(<<Write("newAngularVel")>>))
    \o <<Clone("newQuaternion", "state.quaternion")>>
    \o IfThen(OrientationCode)
    \o IfThen(<<Write("newPosition")>>
                \o IfThen(<<Write("newVelocity"), Write("newVelocity"), Write("newVelocity")>>))
    \o <<New("result"), Alias("result.position", "newPosition"),
         Alias("result.velocity", "newVelocity"), Alias("result.quaternion", "newQuaternion"),
         Alias("result.angularVelocity", "newAngularVel")>>

getTelemetryCode ==
  <<Clone("windVector", "windField.horizontal"), Write("windVector"),
    Clone("airVelocity", "state.velocity"), Write("airVelocity")>>
    \o VectorCode("forward") \o VectorCode("right")
    \o AngleOfAttackCode("airVelocity")
    \o <<New("result")>>

\* getWindFieldAt(state.position, thermalSystem), getVerticalWindAt inlined
getWindFieldAtCode ==
  <<Clone("horizontal", "thermalSystem.wind"), Write("horizontal"),
    New("pos2D"), New("result"), Alias("result.horizontal", "horizontal")>>

\* createThermal(updatedThermals): the do-while makes a center per attempt
createThermalCode ==
  <<New("center")>> \o IfThen(<<New("center")>>) \o <<New("spawned"), Alias("spawned.center", "center")>>

\* updateThermalSystem(thermalSystem, deltaTime) on a thermal of the state
updateThermalSystemCode ==
  <<New("updatedThermals")>>
    \o IfThen(<<Clone("newCenter", "thermal.center"), Write("newCenter"), Write("newCenter")>>
                \o IfThen(<<Write("newCenter")>>) \o IfThen(<<Write("newCenter")>>)
                \o IfThen(<<Write("newCenter")>>) \o IfThen(<<Write("newCenter")>>)
                \o <<New("updated"), Alias("updated.center", "newCenter"),
                     Write("updatedThermals")>>)
    \o IfThen(createThermalCode \o <<Write("updatedThermals")>>)
    \o <<New("result"), Alias("result.thermals", "updatedThermals"),
         Alias("result.wind", "thermalSystem.wind")>>

Operations == {"updatePhysics", "getTelemetry", "getWindFieldAt", "updateThermalSystem"}

CodeOf(operation) ==
  CASE operation = "updatePhysics" -> updatePhysicsCode
    [] operation = "getTelemetry" -> getTelemetryCode
    [] operation = "getWindFieldAt" -> getWindFieldAtCode
    [] operation = "updateThermalSystem" -> updateThermalSystemCode
    [] OTHER -> << >>

\* The objects handed to the operations
ArgumentNames ==
  <<"state", "state.position", "state.velocity", "state.quaternion", "state.angularVelocity",
    "controls", "windField", "windField.horizontal", "thermalSystem", "thermalSystem.wind",
    "thermalSystem.thermals", "thermal", "thermal.center">>

ArgumentObjects == 1..Len(ArgumentNames)

ArgumentEnv ==
  [name \in {ArgumentNames[i] : i \in ArgumentObjects} |->
     CHOOSE i \in ArgumentObjects : ArgumentNames[i] = name]

\* env with name bound to object
Bind(env, name, object) ==
  [x \in DOMAIN env \cup {name} |-> IF x = name THEN object ELSE env[x]]

\* Faulty variant of clone(): the object itself in place of a copy
CloneTargetShared(source, fresh) == source

\* src.clone() is a new object
CloneTarget(source, fresh) == fresh

InitEffects ==
  /\ glider = createInitialState(Vec3(0, 500 * Milli, 0), 0)
  /\ thermalSystem = NoThermals
  /\ hist = [calls |-> 0, startCount |-> THERMAL_COUNT]
  /\ last = [op |-> "none", pc |-> 1, env |-> ArgumentEnv, written |-> {},
             next |-> Len(ArgumentNames) + 1]

\* The step the operation is at
AtStep(kind) ==
  /\ last.pc <= Len(CodeOf(last.op))
  /\ CodeOf(last.op)[last.pc].k = kind

\* An operation is called on the argument objects
CallOperation ==
  \E operation \in Operations :
    /\ last.pc > Len(CodeOf(last.op))
    /\ last' = [op |-> operation, pc |-> 1, env |-> ArgumentEnv, written |-> {},
                next |-> Len(ArgumentNames) + 1]
    /\ UNCHANGED <<glider, thermalSystem, hist>>

StepTo(step, env, written, next) ==
  /\ last' = [last EXCEPT !.pc = @ + 1 + step.n, !.env = env, !.written = written,
                          !.next = next]
  /\ UNCHANGED <<glider, thermalSystem, hist>>

DoClone ==
  /\ AtStep("clone")
  /\ StepTo(Clone("", ""),
            Bind(last.env, CodeOf(last.op)[last.pc].d,
                 CloneTarget(last.env[CodeOf(last.op)[last.pc].s], last.next)),
            last.written, last.next + 1)

DoNew ==
  /\ AtStep("new")
  /\ StepTo(New(""), Bind(last.env, CodeOf(last.op)[last.pc].d, last.next),
            last.written, last.next + 1)

DoWrite ==
  /\ AtStep("write")
  /\ StepTo(Write(""), last.env,
            last.written \cup {last.env[CodeOf(last.op)[last.pc].d]}, last.next)

DoAlias ==
  /\ AtStep("alias")
  /\ StepTo(Alias("", ""),
            Bind(last.env, CodeOf(last.op)[last.pc].d, last.env[CodeOf(last.op)[last.pc].s]),
            last.written, last.next)

\* The condition holds: into the block
DoIfTaken ==
  /\ AtStep("if")
  /\ StepTo(New(""), last.env, last.written, last.next)

\* The condition fails, or the end of a then-block: over the block
DoSkip ==
  /\ AtStep("if") \/ AtStep("jump")
  /\ StepTo(CodeOf(last.op)[last.pc], last.env, last.written, last.next)

NextEffects ==
  CallOperation \/ DoClone \/ DoNew \/ DoWrite \/ DoAlias \/ DoIfTaken \/ DoSkip

SpecEffects == InitEffects /\ [][NextEffects]_vars

Returned(operation) == last.op = operation /\ last.pc > Len(CodeOf(operation))

\* C16: no operation of the core writes an object it was handed:
\* updatePhysics, getTelemetry, getWindFieldAt and updateThermalSystem leave
\* the GliderState, the controls, the wind sample, the ThermalSystemState
\* with its wind vector and its thermals unwritten, and updateThermalSystem
\* returns a new state with a new list of new thermals.
C16_ArgumentsUnchanged ==
  /\ last.written \cap ArgumentObjects = {}
  /\ Returned("updateThermalSystem") =>
       {last.env[n] : n \in {"result", "result.thermals"}
                              \cup ({"updated", "updated.center", "spawned", "spawned.center"}
                                      \cap DOMAIN last.env)}
         \cap ArgumentObjects = {}

\* C16 witness: updatePhysics has returned after the orientation update and
\* the ground collision, having written objects of its own
C16_Witness ==
  /\ Returned("updatePhysics")
  /\ {"rollQ", "blended", "velocityNorm", "liftDir"} \subseteq DOMAIN last.env
  /\ {last.env["newPosition"], last.env["newVelocity"], last.env["newQuaternion"],
      last.env["newAngularVel"]} \subseteq last.written

\* C16, what is reached: the state updateThermalSystem returns holds the
\* wind vector of the state it was given, the same object
C16_WindShared ==
  /\ Returned("updateThermalSystem")
  /\ last.env["result.wind"] = last.env["thermalSystem.wind"]
  /\ "updated" \in DOMAIN last.env

----------------------------------------------------------------------------
(* The range of calculateCL                                                *)

\* The taper the post-stall branches apply: max(0.5, 1 - 3 * excess)
Taper(excess) == Max(One \div 2, One - 3 * excess)

\* The angles of Alphas further beyond the same stall boundary than alpha
BeyondPositive(alpha) == {other \in Alphas : other > alpha}
BeyondNegative(alpha) == {other \in Alphas : other < alpha}

\* C24: for every angle of attack calculateCL returns a value in
\* [-CL_MAX_NEG, CL_MAX]; beyond +12 degrees it is CL_MAX * max(0.5, 1 - 3 *
\* excess) and below -10 degrees -CL_MAX_NEG * max(0.5, 1 - 3 * excess), so the
\* post-stall magnitude is at least half the boundary value and does not
\* increase with the excess angle.
C24_RangeAndTaper ==
  last.op = "calculateCL" =>
    /\ last.cl >= -CL_MAX_NEG
    /\ last.cl <= CL_MAX
    /\ last.alpha > STALL_ALPHA_POS =>
         /\ last.cl = FMul(CL_MAX, Taper(last.alpha - STALL_ALPHA_POS))
         /\ last.cl >= CL_MAX \div 2
         /\ \A other \in BeyondPositive(last.alpha) : calculateCL(other) <= last.cl
    /\ last.alpha < STALL_ALPHA_NEG =>
         /\ last.cl = FMul(-CL_MAX_NEG, Taper(STALL_ALPHA_NEG - last.alpha))
         /\ last.cl <= -(CL_MAX_NEG \div 2)
         /\ \A other \in BeyondNegative(last.alpha) : calculateCL(other) >= last.cl

\* calculateCL was applied beyond the positive stall angle where the taper has
\* reached its floor: CL is half of CL_MAX
C24_Witness ==
  /\ last.op = "calculateCL"
  /\ last.alpha > STALL_ALPHA_POS + One \div 6
  /\ last.cl = CL_MAX \div 2

----------------------------------------------------------------------------
(* Flight steps of a glider nearly at rest in the air                      *)

\* Velocities relative to the air (um/s): at rest, below the 0.5 m/s of
\* calculateAeroForces, on it and above it
AirVelocities ==
  {Vec3(0, 0, 0), Vec3(300000, 0, 0), Vec3(0, -400000, 200000), Vec3(-499999, 0, 0),
   Vec3(0, 0, 500000), Vec3(0, 600000, 0)}

\* Gliders carried by the air of a wind sample, low and high
GlidersInAir ==
  {[position |-> Vec3(0, y, 0), velocity |-> VAdd(FullWind(windField), airVelocity),
    quaternion |-> q, angularVelocity |-> Vec3(0, 0, 0)] :
     y \in {3 * Milli, 500 * Milli}, windField \in {Calm, Lifting},
     airVelocity \in AirVelocities, q \in {Level, Banked}}

InitInAir ==
  /\ glider \in GlidersInAir
  /\ thermalSystem = NoThermals
  /\ hist = [calls |-> 0, startCount |-> THERMAL_COUNT]
  /\ last = [op |-> "none"]

NextInAir == UpdatePhysics
SpecInAir == InitInAir /\ [][NextInAir]_vars

\* Speed of the last step's glider relative to the air it was given
AirspeedBefore == VLength(VSub(last.before.velocity, FullWind(last.windField)))

\* (0, -GRAVITY * dt, 0) in um/s, dt in ms
GravityOnly(dt) == Vec3(0, -MulDiv(FMul(GRAVITY, Micro), dt, Milli), 0)

\* C23: when the speed relative to the air (velocity minus horizontal and
\* vertical wind) is below 0.5 m/s, calculateAeroForces returns zero lift, drag
\* and side force, and the velocity of updatePhysics before the ground clamp
\* is the input velocity plus (0, -GRAVITY * dt, 0); clear of the ground it is
\* the velocity updatePhysics returns.
C23_GravityOnlyBelowHalf ==
  (Stepped /\ AirspeedBefore < Micro \div 2) =>
    /\ calculateAeroForces(last.before.velocity, last.before.quaternion, last.windField)
         = [lift |-> Vec3(0, 0, 0), drag |-> Vec3(0, 0, 0), sideForce |-> Vec3(0, 0, 0)]
    /\ Integrated.velocity = VAdd(last.before.velocity, GravityOnly(Min(last.deltaTime, 50)))
    /\ Integrated.position.y >= 5 * Milli =>
         glider.velocity = VAdd(last.before.velocity, GravityOnly(Min(last.deltaTime, 50)))

\* A glider drifting with the wind, 0.3 m/s relative to the rising air, has
\* taken a step clear of the ground and gained the fall of gravity only
C23_Witness ==
  /\ Stepped
  /\ last.windField = Lifting
  /\ last.deltaTime = 50
  /\ AirspeedBefore = 300000
  /\ VLength(last.before.velocity) > 5 * Micro
  /\ glider.position.y > 5 * Milli
  /\ glider.velocity = VAdd(last.before.velocity, Vec3(0, -490500, 0))

\* At 0.5 m/s relative to the air the forces are computed: the step changes
\* the velocity by more than gravity
C23_AtHalfForcesAct ==
  /\ Stepped
  /\ AirspeedBefore = Micro \div 2
  /\ last.deltaTime = 50
  /\ Integrated.velocity # VAdd(last.before.velocity, GravityOnly(50))

----------------------------------------------------------------------------
(* applyWeathervane on a range of velocities                               *)

\* Velocities over the ground (um/s): fast with sideslip, fast nearly without,
\* slow, on the 5 m/s of the test, and steep ones whose horizontal part is
\* slower than 5 m/s
WeathervaneVelocities ==
  {Vec3(3 * Micro, -15 * Micro, 20 * Micro), Vec3(10 * Micro, 0, 10 * Micro),
   Vec3(200000, 0, 40 * Micro), Vec3(0, -Micro, 30 * Micro),
   Vec3(3 * Micro, 0, 3 * Micro), Vec3(4 * Micro, -3 * Micro, 0),
   Vec3(2 * Micro, -5 * Micro, 2 * Micro), Vec3(Micro, 8 * Micro, 0),
   Vec3(-4 * Micro, 0, -2 * Micro), Vec3(-25 * Micro, 2 * Micro, 30 * Micro)}

WeathervaneRates ==
  {Vec3(0, 0, 0), Vec3(10000000, -5000000, 20000000), Vec3(-30000000, 40000000, 0)}

InitWeathervane ==
  /\ glider = createInitialState(Vec3(0, 500 * Milli, 0), 0)
  /\ thermalSystem = NoThermals
  /\ hist = [calls |-> 0, startCount |-> THERMAL_COUNT]
  /\ last = [op |-> "none"]

ApplyWeathervane ==
  \E angularVelocity \in WeathervaneRates, velocity \in WeathervaneVelocities,
     quaternion \in {Level, Banked}, deltaTime \in {16, 50} :
    /\ last' = [op |-> "applyWeathervane", angularVelocity |-> angularVelocity,
                velocity |-> velocity, quaternion |-> quaternion, deltaTime |-> deltaTime,
                result |-> applyWeathervane(angularVelocity, velocity, quaternion, deltaTime)]
    /\ hist' = [hist EXCEPT !.calls = 1]
    /\ UNCHANGED <<glider, thermalSystem>>

NextWeathervane == ApplyWeathervane
SpecWeathervane == InitWeathervane /\ [][NextWeathervane]_vars

\* normalize(velocity) . bodyRight of the last call
SideslipOfLast == VDot(VNormalize(last.velocity), getRightVector(last.quaternion))

\* The speed over the ground: the length of the horizontal part of the velocity
HorizontalSpeed(velocity) == Hypot(velocity.x, 0, velocity.z)

\* yaw + (target - yaw) * 3 * dt, target = -sideslip * WEATHERVANE_STRENGTH *
\* min(1, speed / 30)
BlendedYaw(yaw, sideslip, speed, deltaTime) ==
  yaw + MulDiv((FMul(FMul(-sideslip, WEATHERVANE_STRENGTH),
                     Min(One, MulDiv(speed, One, 30 * Micro))) - yaw) * 3,
               deltaTime, Milli)

\* What the claim makes of a call whose speed is measured as `speed`
WeathervaneBy(speed) ==
  last.op = "applyWeathervane" =>
    IF speed < 5 * Micro \/ Abs(SideslipOfLast) < One \div 100
    THEN last.result = last.angularVelocity
    ELSE /\ last.result.x = last.angularVelocity.x
         /\ last.result.z = last.angularVelocity.z
         /\ last.result.y = BlendedYaw(last.angularVelocity.y, SideslipOfLast, speed,
                                       last.deltaTime)

\* C22: applyWeathervane returns the angular velocity unchanged when the
\* groundspeed (horizontal speed) is below 5 m/s or |sideslip| < 0.01;
\* otherwise it changes only the yaw rate, moving it toward -sideslip *
\* WEATHERVANE_STRENGTH * min(1, speed / 30) by the fraction 3 * dt, and leaves
\* the pitch and roll rates unchanged.
C22_ByHorizontalSpeed == WeathervaneBy(HorizontalSpeed(last.velocity))

\* The same with the speed the code measures: the length of the whole
\* velocity vector, vertical part included
C22_ByVelocityLength == WeathervaneBy(VLength(last.velocity))

\* A steep descent, 2.83 m/s over the ground and 5.74 m/s along the path, with
\* sideslip: the yaw rate has changed
C22_SteepChanged ==
  /\ last.op = "applyWeathervane"
  /\ last.velocity = Vec3(2 * Micro, -5 * Micro, 2 * Micro)
  /\ HorizontalSpeed(last.velocity) < 5 * Micro
  /\ last.result.y # last.angularVelocity.y

----------------------------------------------------------------------------
(* Roll and yaw rates over a sequence of flight steps                      *)

MaxRateTicks == 3

\* Frames with the stick and the rudder held over, together and against each
\* other, at frame times in (0, 0.05] s and one above it (ms)
RateInputs ==
  {[controls |-> [pitch |-> 0, roll |-> One, yaw |-> -One], windField |-> Calm,
    deltaTime |-> 50],
   [controls |-> [pitch |-> One, roll |-> -One, yaw |-> One], windField |-> Lifting,
    deltaTime |-> 50],
   [controls |-> [pitch |-> -One, roll |-> One, yaw |-> One], windField |-> Calm,
    deltaTime |-> 16],
   [controls |-> [pitch |-> 0, roll |-> -50000000, yaw |-> -One], windField |-> Lifting,
    deltaTime |-> 1],
   [controls |-> NoInput, windField |-> Calm, deltaTime |-> 100]}

\* Gliders of every test velocity, level and banked, not turning
InitRates ==
  /\ glider \in {g \in TestGliders({Level, Banked}) :
                   g.angularVelocity = Vec3(0, 0, 0) /\ g.position.y = 500 * Milli}
  /\ thermalSystem = NoThermals
  /\ hist = [calls |-> 0, startCount |-> THERMAL_COUNT]
  /\ last = [op |-> "none"]

UpdatePhysicsRates ==
  \E in \in RateInputs :
    /\ hist.calls < MaxRateTicks
    /\ glider' = updatePhysics(glider, in.controls, in.windField, in.deltaTime)
    /\ hist' = [hist EXCEPT !.calls = @ + 1]
    /\ last' = [op |-> "updatePhysics", controls |-> in.controls, windField |-> in.windField,
                deltaTime |-> in.deltaTime, before |-> glider]
    /\ UNCHANGED thermalSystem

NextRates == UpdatePhysicsRates
SpecRates == InitRates /\ [][NextRates]_vars

\* b lies between a and c, ends included
Between(a, b, c) == (a <= b /\ b <= c) \/ (c <= b /\ b <= a)

\* The angular velocity of the last step after its control stage
Controlled ==
  applyControlInputs(last.before.angularVelocity, last.controls, Min(last.deltaTime, 50))

\* and after its damping stage
Damped == applyDamping(Controlled, Min(last.deltaTime, 50))

\* and after its weathervane stage
Weathervaned ==
  applyWeathervane(Damped, Integrated.velocity, last.before.quaternion,
                   Min(last.deltaTime, 50))

\* C29: from zero angular velocity, over any sequence of updatePhysics steps
\* with roll and yaw inputs in [-1, 1] and dt in (0, 0.05], the roll rate
\* stays within MAX_ROLL_RATE and the yaw rate within MAX_YAW_RATE in
\* magnitude: the control stage moves each rate toward its target without
\* passing it, and the damping stage neither flips the sign of a rate nor
\* increases its magnitude.
C29_RatesBounded ==
  /\ Abs(glider.angularVelocity.z) <= MAX_ROLL_RATE
  /\ Abs(glider.angularVelocity.y) <= MAX_YAW_RATE
  /\ Stepped =>
       /\ Between(last.before.angularVelocity.z, Controlled.z,
                  FMul(last.controls.roll, MAX_ROLL_RATE))
       /\ Between(last.before.angularVelocity.y, Controlled.y,
                  FMul(-last.controls.yaw, MAX_YAW_RATE))
       /\ Between(0, Damped.z, Controlled.z)
       /\ Between(0, Damped.y, Controlled.y)
       /\ Abs(Weathervaned.y) <= MAX_YAW_RATE
       /\ glider.angularVelocity.z = Damped.z
       /\ glider.angularVelocity.y = Weathervaned.y

\* Three steps with the stick and the rudder held over at dt = 0.05: the roll
\* rate has passed a third of MAX_ROLL_RATE and the weathervane stage has changed
\* the yaw rate of the last step
C29_Witness ==
  /\ Stepped
  /\ hist.calls = MaxRateTicks
  /\ last.deltaTime = 50
  /\ last.controls.roll = One
  /\ glider.angularVelocity.z > MAX_ROLL_RATE \div 3
  /\ Weathervaned.y # Damped.y
  /\ glider.angularVelocity.y # 0

----------------------------------------------------------------------------
(* Thermal centers stay in the world                                       *)

\* A coordinate (mm) within [-WORLD_SIZE/2, +WORLD_SIZE/2]
InWorld(c) == -((WORLD_SIZE * Milli) \div 2) <= c /\ c <= (WORLD_SIZE * Milli) \div 2

\* C25: after any number of updateThermalSystem calls with deltaTime >= 0 from
\* createThermalSystem, both center coordinates of every thermal lie within
\* [-WORLD_SIZE/2, +WORLD_SIZE/2].
C25_CentersInWorld ==
  \A i \in 1..Len(thermalSystem.thermals) :
    /\ InWorld(thermalSystem.thermals[i].center.x)
    /\ InWorld(thermalSystem.thermals[i].center.y)

\* An update carried a surviving thermal over the positive edge of the world,
\* where it was wrapped to the negative side
C25_Witness ==
  /\ Updated
  /\ last.deltaTime > 0
  /\ \E i \in 1..Len(KeptThermals) :
       /\ KeptThermals[i].center.x + Drift(last.before.wind.x, last.deltaTime)
            > (WORLD_SIZE * Milli) \div 2
       /\ thermalSystem.thermals[i].center.x < 0
       /\ InWorld(thermalSystem.thermals[i].center.x)

----------------------------------------------------------------------------
(* What updateThermalSystem changes                                        *)

\* C26: updateThermalSystem changes only the center and the age of a
\* surviving thermal (id, radius, strength and lifetime are as before); the
\* survivors keep their order and the newly spawned thermals follow them; the
\* wind vector is unchanged and the elapsed time grows by exactly deltaTime.
C26_UpdateFrame ==
  Updated =>
    /\ Len(KeptThermals) <= Len(thermalSystem.thermals)
    /\ \A i \in 1..Len(KeptThermals) :
         /\ thermalSystem.thermals[i].id = KeptThermals[i].id
         /\ thermalSystem.thermals[i].radius = KeptThermals[i].radius
         /\ thermalSystem.thermals[i].strength = KeptThermals[i].strength
         /\ thermalSystem.thermals[i].lifetime = KeptThermals[i].lifetime
         /\ DOMAIN thermalSystem.thermals[i] = DOMAIN KeptThermals[i]
    /\ \A i \in (Len(KeptThermals) + 1)..Len(thermalSystem.thermals) :
         thermalSystem.thermals[i].age = 0
    /\ thermalSystem.wind = last.before.wind
    /\ thermalSystem.time = last.before.time + last.deltaTime
    /\ DOMAIN thermalSystem = DOMAIN last.before

\* An update over a positive time removed a thermal from the middle of the
\* population: a survivor moved up in the order, drifted and aged, and new
\* thermals were appended after the survivors
C26_Witness ==
  /\ Updated
  /\ last.deltaTime > 0
  /\ Len(KeptThermals) < Len(last.before.thermals)
  /\ \E i \in 1..Len(KeptThermals) :
       /\ KeptThermals[i] # last.before.thermals[i]
       /\ thermalSystem.thermals[i].id = KeptThermals[i].id
       /\ thermalSystem.thermals[i].center # KeptThermals[i].center
       /\ thermalSystem.thermals[i].age = KeptThermals[i].age + last.deltaTime
  /\ thermalSystem.thermals[Len(thermalSystem.thermals)].age = 0
  /\ thermalSystem.time > last.before.time

----------------------------------------------------------------------------
(* getVerticalWindAt on the thermal field                                  *)

\* Sample altitudes (mm): the ground, the fade near it, mid-air, the fade
\* above cloud base, its end at CLOUD_BASE + 400 m, and above
SampleAltitudes ==
  {0, 50 * Milli, 500 * Milli, (CLOUD_BASE + 200) * Milli, (CLOUD_BASE + 400) * Milli,
   2500 * Milli}

\* Sample positions: over the center of the first, the second and the last
\* thermal, where its updraft is strongest
SamplePositions(thermals) ==
  {Vec3(thermals[i].center.x, y, thermals[i].center.y) :
     i \in {1, 2, Len(thermals)}, y \in SampleAltitudes}

\* A sample reads the field and changes nothing: every field is sampled at
\* each position once, and the updates go on from the fields themselves
SampleVerticalWind ==
  \E position \in SamplePositions(thermalSystem.thermals) :
    /\ last.op # "getVerticalWindAt"
    /\ last' = [op |-> "getVerticalWindAt", position |-> position,
                vertical |-> getVerticalWindAt(position, thermalSystem)]
    /\ UNCHANGED <<thermalSystem, glider, hist>>

UpdateSampledField ==
  /\ last.op # "getVerticalWindAt"
  /\ UpdateThermalSystem

NextWind == UpdateSampledField \/ SampleVerticalWind
SpecWind == InitThermal /\ [][NextWind]_vars

Sampled == last.op = "getVerticalWindAt"

\* The conditions under which the claim says a thermal contributes nothing
Silent(thermal, position) ==
  \/ thermal.age = 0
  \/ thermal.age = thermal.lifetime
  \/ position.y = 0
  \/ position.y >= (CLOUD_BASE + 400) * Milli

\* C30: a thermal contributes nothing to getVerticalWindAt when its age is 0
\* or equals its lifetime, or when the sample altitude is 0 or at least
\* CLOUD_BASE + 400; so on the state createThermalSystem returns (all ages 0)
\* the vertical wind at every position is the ambient sink -0.3 plus the
\* turbulence term, until the first thermal update.
C30_SilentThermals ==
  Sampled =>
    /\ \A i \in 1..Len(thermalSystem.thermals) :
         Silent(thermalSystem.thermals[i], last.position) =>
           thermalContribution(last.position, thermalSystem.thermals[i]) = 0
    /\ (\A i \in 1..Len(thermalSystem.thermals) :
          Silent(thermalSystem.thermals[i], last.position)) =>
         last.vertical = -300000 + Turbulence(last.position, thermalSystem.time)
    /\ hist.calls = 0 =>
         last.vertical = -300000 + Turbulence(last.position, thermalSystem.time)

\* Before the first update: a sample in mid-air over the center of a thermal
\* gave the ambient sink and the turbulence only
C30_Witness ==
  /\ Sampled
  /\ hist.calls = 0
  /\ last.position.y = 500 * Milli
  /\ last.position.x = thermalSystem.thermals[1].center.x
  /\ last.position.z = thermalSystem.thermals[1].center.y
  /\ last.vertical = -300000 + Turbulence(last.position, 0)
  /\ last.vertical <= 0

\* After an update the same sample has a thermal that has reached its
\* lifetime exactly and contributes nothing, beside one that lifts at more
\* than 1 m/s
C30_AtLifetime ==
  /\ Sampled
  /\ hist.calls > 0
  /\ last.position.y = 500 * Milli
  /\ \E i \in 1..Len(thermalSystem.thermals) :
       /\ thermalSystem.thermals[i].age = thermalSystem.thermals[i].lifetime
       /\ thermalSystem.thermals[i].age > 0
  /\ \E i \in 1..Len(thermalSystem.thermals) :
       thermalContribution(last.position, thermalSystem.thermals[i]) > Micro

----------------------------------------------------------------------------
(* GameLoop's accumulators over whole frames                               *)
(* A frame is one run of GameLoop's useFrame callback from its first to    *)
(* its last statement (no other callback runs in between).  The two        *)
(* accumulators are refs of the GameLoop component: it is mounted under    *)
(* key={resetTrigger}, so the re-render that follows handleReset's         *)
(* setResetTrigger unmounts it and mounts a new one whose refs start at 0.  *)
(* hist.frameTime is the sum of the frame times of all frames,              *)
(* hist.sinceReset that of the frames since the last handleReset (ms), and  *)
(* hist.staleFrames the number of frames run between a handleReset and the  *)
(* mount that follows it.                                                   *)

MaxCadenceFrames == 3

\* Frame times (ms): a 60 Hz frame, two that add up to the 0.5 s of the
\* thermal update exactly, and one beyond it
CadenceDeltas == {16, 200, 300, 600}

\* Faulty variant of the test of line 43: an update on every frame
ThermalUpdateEveryFrame(elapsed) == elapsed > 0

\* if (lastThermalUpdateRef.current > 0.5)
ThermalUpdateDue(elapsed) == elapsed > 500

\* if (telemetryUpdateRef.current > 0.1)
TelemetryDue(elapsed) == elapsed > 100

InitCadence ==
  /\ \E seed \in Seeds : thermalSystem = createThermalSystem(seed)
  /\ glider = createInitialState(Vec3(0, 500 * Milli, 0), 0)
  /\ hist = [calls |-> 0, startCount |-> THERMAL_COUNT, frameTime |-> 0, sinceReset |-> 0,
             resets |-> 0, staleFrames |-> 0]
  /\ last = [op |-> "none", delta |-> 0, windField |-> Calm, before |-> glider,
             lastThermalUpdate |-> 0, telemetryUpdate |-> 0,
             telemetry |-> getTelemetry(glider, Calm),
             updateArg |-> -1, accumulated |-> 0, remountPending |-> FALSE]

\* The callback from line 36 on, with the wind sample, the updatePhysics
\* result and both accumulators advanced by delta
FrameThen(delta, rng, windField, newState, thermalElapsed, telemetryElapsed) ==
  /\ glider' = newState
  /\ thermalSystem' = IF ThermalUpdateDue(thermalElapsed)
                      THEN updateThermalSystem(thermalSystem, thermalElapsed, rng)
                      ELSE thermalSystem
  /\ last' = [last EXCEPT
                !.op = "GameLoop", !.delta = delta, !.windField = windField,
                !.before = glider,
                !.lastThermalUpdate = IF ThermalUpdateDue(thermalElapsed) THEN 0
                                      ELSE thermalElapsed,
                !.updateArg = IF ThermalUpdateDue(thermalElapsed) THEN thermalElapsed ELSE -1,
                !.accumulated = thermalElapsed,
                !.telemetryUpdate = IF TelemetryDue(telemetryElapsed) THEN 0
                                    ELSE telemetryElapsed,
                !.telemetry = IF TelemetryDue(telemetryElapsed)
                              THEN getTelemetry(newState, windField)
                              ELSE last.telemetry]
  /\ hist' = [hist EXCEPT !.calls = @ + 1, !.frameTime = @ + delta,
                          !.sinceReset = @ + delta,
                          !.staleFrames = @ + (IF last.remountPending THEN 1 ELSE 0)]

\* One run of GameLoop's useFrame callback: the wind sample of line 30, the
\* updatePhysics result of line 33, then the rest
Frame ==
  \E delta \in CadenceDeltas, rng \in Seeds :
    /\ hist.calls < MaxCadenceFrames
    /\ \E windField \in {getWindFieldAt(glider.position, thermalSystem)} :
         \E newState \in {updatePhysics(glider, NoInput, windField, delta)} :
           FrameThen(delta, rng, windField, newState, last.lastThermalUpdate + delta,
                     last.telemetryUpdate + delta)

NextCadence == Frame
SpecCadence == InitCadence /\ [][NextCadence]_vars

\* C21: over any sequence of frames without a reset, updateThermalSystem is
\* called only on a frame where the time accumulated since the previous
\* thermal update has reached 0.5 s; it receives the whole accumulated time
\* and the accumulator returns to 0, so the field's elapsed time plus the
\* pending accumulator always equals the sum of all raw frame times, while
\* the flight step of the frame advances by min(delta, 0.05).
C21_ThermalCadence ==
  /\ thermalSystem.time + last.lastThermalUpdate = hist.frameTime
  /\ last.op = "GameLoop" =>
       /\ last.updateArg # -1 =>
            /\ last.updateArg >= 500
            /\ last.updateArg = last.accumulated
            /\ last.lastThermalUpdate = 0
       /\ last.updateArg = -1 => last.lastThermalUpdate = last.accumulated
       /\ glider = updatePhysics(last.before, NoInput, last.windField, Min(last.delta, 50))

\* Frames of 0.2 s and 0.3 s brought the accumulator to 0.5 s without an
\* update; the next frame of 0.016 s handed 0.516 s to updateThermalSystem,
\* while its flight step advanced by 0.016 s
C21_Witness ==
  /\ last.op = "GameLoop"
  /\ last.delta = 16
  /\ last.updateArg = 516
  /\ last.lastThermalUpdate = 0
  /\ thermalSystem.time = 516
  /\ hist.frameTime = 516
  /\ thermalSystem.thermals[1].age = 516

\* A frame of 0.6 s: the thermal field advanced by 0.6 s, the flight step by
\* 0.05 s only
C21_LongFrame ==
  /\ last.op = "GameLoop"
  /\ last.delta = 600
  /\ last.updateArg = 600
  /\ glider = updatePhysics(last.before, NoInput, last.windField, 50)
  /\ glider # updatePhysics(last.before, NoInput, last.windField, 16)

\* The accumulator stands at 0.5 s exactly and no update was made: the test
\* of line 43 is strict
C21_ExactlyHalf ==
  /\ last.op = "GameLoop"
  /\ last.accumulated = 500
  /\ last.updateArg = -1

----------------------------------------------------------------------------
(* handleReset under the running game loop                                 *)
(* handleReset replaces both refs and calls setResetTrigger; the GameLoop  *)
(* mounted under the new key, with its accumulators at 0, exists once      *)
(* React has rendered and committed that state change inside the Canvas.   *)
(* Until then the mounted GameLoop is the old one and its useFrame         *)
(* callback is the one an animation frame runs.  Nothing in the handler or *)
(* the callback orders the next animation frame after that commit.         *)

MaxResets == 1

\* handleReset: new glider state, new thermal field, setResetTrigger
ResetGame ==
  \E seed \in Seeds :
    /\ hist.resets < MaxResets
    /\ glider' = createInitialState(Vec3(0, 500 * Milli, 0), 0)
    /\ thermalSystem' = createThermalSystem(seed)
    /\ last' = [last EXCEPT !.op = "handleReset", !.updateArg = -1,
                            !.remountPending = TRUE]
    /\ hist' = [hist EXCEPT !.resets = @ + 1, !.sinceReset = 0]

\* The commit of the re-render: GameLoop under the new key, its refs at 0
RemountGameLoop ==
  /\ last.remountPending
  /\ last' = [last EXCEPT !.op = "mount", !.updateArg = -1, !.lastThermalUpdate = 0,
                          !.telemetryUpdate = 0, !.remountPending = FALSE]
  /\ UNCHANGED <<glider, thermalSystem, hist>>

NextReset == Frame \/ ResetGame \/ RemountGameLoop
SpecReset == InitCadence /\ [][NextReset]_vars

\* The fresh field has been given frame time of since the reset only
OnlyTimeSinceReset ==
  hist.resets > 0 =>
    /\ thermalSystem.time <= hist.sinceReset
    /\ (last.op = "GameLoop" /\ last.updateArg # -1) => last.updateArg <= hist.sinceReset

\* C27: after handleReset no frame applies time accumulated before the reset
\* to the fresh state: the first updateThermalSystem call on the new
\* ThermalSystemState receives only frame time elapsed since the reset,
\* whatever the interleaving of the reset handler, the next frame callback
\* and the remount of GameLoop that zeroes its accumulators.
C27_NoTimeAcrossReset == OnlyTimeSinceReset

\* The same for the interleavings in which the remount comes before the
\* next frame
C27_WhenRemountedFirst == hist.staleFrames = 0 => OnlyTimeSinceReset

\* A frame of 0.3 s, the reset, and before the remount a frame of 0.3 s: the
\* fresh field, 0.3 s old, has been advanced by 0.6 s
C27_StaleAccumulator ==
  /\ last.op = "GameLoop"
  /\ last.remountPending
  /\ hist.resets = 1
  /\ hist.sinceReset = 300
  /\ last.updateArg = 600
  /\ thermalSystem.time = 600
  /\ thermalSystem.thermals[1].age = 600

----------------------------------------------------------------------------
(* ui/JoystickControls: the keyboard                                       *)
(* last.keys is the Set `keys` of the effect, last.held the physical keys  *)
(* that are down, last.shift whether Shift is one of them.  A letter key   *)
(* reports e.key in lower case without Shift and in upper case with it; an *)
(* arrow key reports its name either way.  A key that is held down repeats  *)
(* its keydown event.                                                      *)

MaxKeyEvents == 4

\* Physical keys: four the handler lists in both cases, two arrows, and one
\* it does not list
LetterKeys == {"w", "s", "d", "q"}
ArrowKeys == {"ArrowUp", "ArrowLeft"}
PhysicalKeys == LetterKeys \cup ArrowKeys \cup {"x"}

UpperCase(k) ==
  CASE k = "w" -> "W" [] k = "s" -> "S" [] k = "d" -> "D" [] k = "q" -> "Q" [] k = "x" -> "X"
    [] OTHER -> k

\* e.key of a physical key under the Shift state
KeyValue(k, shift) == IF shift THEN UpperCase(k) ELSE k

\* The list of handleKeyDown
ListedKeys ==
  {"ArrowUp", "ArrowDown", "ArrowLeft", "ArrowRight", "w", "a", "s", "d", "W", "A", "S", "D",
   "q", "e", "Q", "E"}

Has(keys, names) == keys \cap names # {}

\* updateFromKeyboard: a later `if` overrides an earlier one
updateFromKeyboard(keys) ==
  [pitch |-> IF Has(keys, {"ArrowDown", "s", "S"}) THEN -One
             ELSE IF Has(keys, {"ArrowUp", "w", "W"}) THEN One ELSE 0,
   roll |-> IF Has(keys, {"ArrowRight", "d", "D"}) THEN One
            ELSE IF Has(keys, {"ArrowLeft", "a", "A"}) THEN -One ELSE 0,
   yaw |-> IF Has(keys, {"e", "E"}) THEN One
           ELSE IF Has(keys, {"q", "Q"}) THEN -One ELSE 0]

InitKeyboard ==
  /\ glider = createInitialState(Vec3(0, 500 * Milli, 0), 0)
  /\ thermalSystem = NoThermals
  /\ hist = [calls |-> 0, startCount |-> THERMAL_COUNT]
  /\ last = [op |-> "none", key |-> "", keys |-> {}, held |-> {}, shift |-> FALSE,
             controls |-> NoInput]

\* handleKeyDown with e.key
handleKeyDown(key, held, shift) ==
  IF key \in ListedKeys
  THEN last' = [op |-> "keydown", key |-> key, keys |-> last.keys \cup {key}, held |-> held,
                shift |-> shift, controls |-> updateFromKeyboard(last.keys \cup {key})]
  ELSE last' = [last EXCEPT !.op = "keydown", !.key = key, !.held = held, !.shift = shift]

\* handleKeyUp with e.key
handleKeyUp(key, held, shift) ==
  last' = [op |-> "keyup", key |-> key, keys |-> last.keys \ {key}, held |-> held,
           shift |-> shift, controls |-> updateFromKeyboard(last.keys \ {key})]

\* A key goes down, or repeats while it is held
KeyDown ==
  \E k \in PhysicalKeys :
    /\ hist.calls < MaxKeyEvents
    /\ handleKeyDown(KeyValue(k, last.shift), last.held \cup {k}, last.shift)
    /\ hist' = [hist EXCEPT !.calls = @ + 1]
    /\ UNCHANGED <<glider, thermalSystem>>

KeyUp ==
  \E k \in last.held \ {"Shift"} :
    /\ handleKeyUp(KeyValue(k, last.shift), last.held \ {k}, last.shift)
    /\ hist' = [hist EXCEPT !.calls = @ + 1]
    /\ UNCHANGED <<glider, thermalSystem>>

ShiftDown ==
  /\ hist.calls < MaxKeyEvents
  /\ ~last.shift
  /\ handleKeyDown("Shift", last.held \cup {"Shift"}, TRUE)
  /\ hist' = [hist EXCEPT !.calls = @ + 1]
  /\ UNCHANGED <<glider, thermalSystem>>

ShiftUp ==
  /\ last.shift
  /\ handleKeyUp("Shift", last.held \ {"Shift"}, FALSE)
  /\ hist' = [hist EXCEPT !.calls = @ + 1]
  /\ UNCHANGED <<glider, thermalSystem>>

NextKeyboard == KeyDown \/ KeyUp \/ ShiftDown \/ ShiftUp
SpecKeyboard == InitKeyboard /\ [][NextKeyboard]_vars

UnitComponent(c) == c \in {-One, 0, One}

\* C28: for any interleaving of keydown and keyup events, also with a key
\* released under another e.key than it was pressed with ('w' down, 'W' up
\* after Shift changes), the keyboard-derived ControlInput is {pitch: 0,
\* roll: 0, yaw: 0} once no physical key is held, and every component is
\* always -1, 0 or 1.
C28_ReleasedMeansNeutral ==
  /\ last.held = {} => last.controls = NoInput
  /\ UnitComponent(last.controls.pitch)
  /\ UnitComponent(last.controls.roll)
  /\ UnitComponent(last.controls.yaw)

\* What holds: the components are -1, 0 or 1, and the input is neutral when
\* the Set of the handler is empty
C28_UnitComponents ==
  /\ UnitComponent(last.controls.pitch)
  /\ UnitComponent(last.controls.roll)
  /\ UnitComponent(last.controls.yaw)
  /\ (last.keys = {} /\ last.op = "keyup") => last.controls = NoInput

\* 'w' went down, Shift went down, the key came up as 'W' and Shift came up:
\* nothing is held, 'w' is still in the Set and the pitch input is 1
C28_StuckKey ==
  /\ last.op = "keyup"
  /\ last.key = "Shift"
  /\ last.held = {}
  /\ last.keys = {"w"}
  /\ last.controls.pitch = One

====
